---- MODULE Spec2Model ----
(***************************************************************************)
(* Model of the transition engine of @marianmeres/fsm (src/src/fsm.ts).    *)
(*                                                                         *)
(* Every public operation of the FSM class is synchronous and runs to      *)
(* completion, so each is one action of the model: the action computes the *)
(* whole effect of the call, and records in `last` what the call was, the  *)
(* state it started from, its outcome, and the ordered trace of the user   *)
(* callbacks (guards, hooks, actions, subscribers) it invoked together     *)
(* with what each of them observed.                                        *)
(***************************************************************************)
EXTENDS Integers, Sequences, FiniteSets, TLC

(***************************************************************************)
(* Bounds of the model.                                                    *)
(***************************************************************************)
\* transition()/canTransition() are only issued while attempts is below this
MaxAttempts == 3
\* number of distinct subscriber callbacks
MaxSubs == 2
\* length of the fragment list handed to composeFsmConfig
MaxFragments == 3
\* the most writes to the nested data of a context
MaxWrites == 1

(***************************************************************************)
(* Values.                                                                 *)
(***************************************************************************)
\* an absent property / missing argument
Undefined == "undefined"
\* the initial value of #previous
Null == "null"
\* the wildcard key of an `on` mapping
Wildcard == "*"
\* maxRetries of the test context
MaxRetries == 2

Payloads == {Undefined, "data"}
SubIds == 1..MaxSubs

\* a TransitionObj: absent members are Undefined
Edge(t, g, a) == [target |-> t, guard |-> g, action |-> a]
\* the three forms of a TransitionDef
DefString(t) == [form |-> "string", edges |-> <<Edge(t, Undefined, Undefined)>>]
DefObject(e) == [form |-> "object", edges |-> <<e>>]
DefArray(es) == [form |-> "array", edges |-> es]
\* what a property read yields when the key is missing
NoDef == [form |-> "undefined", edges |-> <<>>]
\* a FSMStatesConfigValue
StateCfg(hasOn, onEnter, onExit, on) ==
    [missing |-> FALSE, hasOn |-> hasOn, onEnter |-> onEnter, onExit |-> onExit,
     on |-> on]
\* what config.states[s] yields when s is no key of states
NoStateCfg == [missing |-> TRUE, hasOn |-> FALSE, onEnter |-> Undefined,
               onExit |-> Undefined, on |-> <<>>]

\* the context shape of the engine: plain data; `nested` stands for a
\* nested object { k: n }, which a shallow copy shares with its source
Context(attempts, data, nested) ==
    [attempts |-> attempts, data |-> data, nested |-> nested]

(***************************************************************************)
(* User code.  Guards, actions and hooks are functions supplied by the     *)
(* application; the model names the ones the configurations below use.     *)
(***************************************************************************)
\* guard kinds: what the guard returns for the object it is handed
GuardReturns(kind, ctx, payload) ==
    CASE kind = "lt"       -> ctx.attempts < MaxRetries
      [] kind = "ge"       -> ctx.attempts >= MaxRetries
      [] kind = "payload"  -> payload # Undefined
      [] kind = "incTrue"  -> TRUE
      [] kind = "incFalse" -> FALSE
      [] kind = "auth"     -> "authenticated" \in DOMAIN ctx /\ ctx.authenticated
      [] kind = "notAuth"  -> ~("authenticated" \in DOMAIN ctx /\ ctx.authenticated)
      [] OTHER             -> FALSE

\* the hooks of the composer's fragments: each records that it was called
EnterHooks == {"enterBase", "enterGate", "enterSession", "enterFallback"}
ExitHooks == {"exitBase", "exitGate", "exitSession"}
RecordingHooks == EnterHooks \cup ExitHooks

\* the function `(context, payload) => { for (hook of hooks) hook(context,
\* payload) }` over the given hooks: functions are named by what they run
RECURSIVE JoinHooks(_, _)
JoinHooks(hooks, i) ==
    IF i = 1 THEN hooks[1] ELSE JoinHooks(hooks, i - 1) \o "," \o hooks[i]
SequenceOf(hooks) == "compose(" \o JoinHooks(hooks, Len(hooks)) \o ")"

\* the sequencing functions that can be built over the fragments' hooks
HookLists(hooks) == UNION {[1..n -> hooks] : n \in 1..MaxFragments}
Sequencers ==
    {[name |-> SequenceOf(hs), hooks |-> hs] :
        hs \in HookLists(EnterHooks) \cup HookLists(ExitHooks)}

\* the functions the application wrote
Callbacks == {"inc", "setData", "incNested", "signIn", "bumpNested"} \cup RecordingHooks
\* the user functions a callback calls, in order: itself when it is a
\* function the application wrote, or for a sequencing function the hooks
\* it was built over
CallsOf(kind) ==
    IF kind \in Callbacks THEN <<kind>>
    ELSE IF \E p \in Sequencers : p.name = kind
    THEN (CHOOSE p \in Sequencers : p.name = kind).hooks
    ELSE <<kind>>

\* guard kinds: what the guard does to the object it is handed
GuardWrites(kind, ctx) ==
    IF kind \in {"incTrue", "incFalse"}
    THEN [ctx EXCEPT !.attempts = @ + 1]
    ELSE ctx

\* action / onEnter / onExit kinds: what the callback does to the context
RunCallback(kind, ctx, payload) ==
    CASE kind = "inc"       -> [ctx EXCEPT !.attempts = @ + 1]
      [] kind = "setData"   -> [ctx EXCEPT !.data = payload]
      [] kind = "incNested" -> [ctx EXCEPT !.nested = @ + 1]
      [] kind = "signIn"    -> ("authenticated" :> TRUE) @@ ctx
      [] kind = "bumpNested" -> IF "nested" \in DOMAIN ctx
                                THEN [ctx EXCEPT !.nested = @ + 1] ELSE ctx
      [] OTHER              -> ctx

\* the context after the user functions `calls` ran on it one after another
RECURSIVE RunCalls(_, _, _, _)
RunCalls(calls, i, ctx, payload) ==
    IF i = 0 THEN ctx
    ELSE RunCallback(calls[i], RunCalls(calls, i - 1, ctx, payload), payload)

\* the calls of recording hooks a callback makes, as trace entries
HookCalls(kind, m) ==
    LET hs == SelectSeq(CallsOf(kind), LAMBDA h : h \in RecordingHooks)
    IN [i \in 1..Len(hs) |-> [step |-> "call", owner |-> hs[i], idx |-> i,
                              result |-> FALSE, current |-> m.state,
                              previous |-> m.previous, context |-> m.context]]

\* typeof kind === "function": a placeholder `null` is none
IsFunction(kind) == kind # Undefined /\ kind # Null

(***************************************************************************)
(* Configurations.                                                         *)
(***************************************************************************)
\* tests/fsm.test.ts "fetch retry definition"
RetryConfig ==
    [initial |-> "IDLE",
     factory |-> FALSE,
     context |-> Context(0, Undefined, 0),
     states |->
       [IDLE     |-> StateCfg(TRUE, Undefined, Undefined,
                        [fetch |-> DefString("FETCHING")]),
        FETCHING |-> StateCfg(TRUE, "inc", Undefined,
                        [resolve |-> DefObject(Edge("SUCCESS", Undefined, Undefined)),
                         reject  |-> DefArray(<<Edge("RETRYING", "lt", Undefined),
                                                Edge("FAILED", "ge", Undefined)>>)]),
        RETRYING |-> StateCfg(TRUE, Undefined, Undefined,
                        [retry |-> DefString("FETCHING")]),
        SUCCESS  |-> StateCfg(TRUE, "setData", Undefined,
                        [reset |-> DefString("IDLE")]),
        FAILED   |-> StateCfg(TRUE, "setData", Undefined,
                        [reset |-> DefString("IDLE")])]]

\* a configuration exercising every form of transition definition:
\* internal edges, self-loops, guarded single edges, sequences with and
\* without a guardless entry, wildcards, guards that write to the object
\* they are handed, a state without `on`, and a target that is no key of
\* `states` (as fromMermaid produces for states without outgoing lines)
GateConfig ==
    [initial |-> "A",
     factory |-> FALSE,
     context |-> Context(0, Undefined, 0),
     states |->
       [A |-> StateCfg(TRUE, "inc", "inc",
                 [go     |-> DefString("B"),
                  loop   |-> DefObject(Edge("A", Undefined, "inc")),
                  tick   |-> DefObject(Edge(Undefined, Undefined, "inc")),
                  idle   |-> DefObject(Edge(Undefined, "payload", Undefined)),
                  gated  |-> DefObject(Edge("B", "payload", "setData")),
                  sneaky |-> DefObject(Edge("B", "incTrue", Undefined)),
                  multi  |-> DefArray(<<Edge("B", "incFalse", Undefined),
                                        Edge("C", "lt", "inc"),
                                        Edge(Undefined, "payload", "inc")>>),
                  fall   |-> DefArray(<<Edge("B", "payload", Undefined),
                                        Edge("C", Undefined, Undefined),
                                        Edge("A", "incTrue", "inc")>>),
                  shut   |-> DefArray(<<Edge("B", "incFalse", "inc"),
                                        Edge("C", "ge", Undefined)>>)]
                 @@ (Wildcard :> DefObject(Edge("C", "payload", Undefined)))),
        B |-> StateCfg(TRUE, "setData", Undefined,
                 [back   |-> DefString("A"),
                  loop   |-> DefString("B"),
                  lost   |-> DefString("GHOST"),
                  stuck  |-> DefObject(Edge("D", Undefined, "inc"))]),
        C |-> StateCfg(TRUE, Undefined, "inc",
                 (Wildcard :> DefString("A"))),
        D |-> StateCfg(FALSE, Undefined, Undefined, <<>>)]]

\* a configuration whose callbacks write to the nested data of the context
\* in place; its context is a static value, or a factory returning that value
CounterConfig(factory) ==
    [initial |-> "X",
     factory |-> factory,
     context |-> Context(0, Undefined, 0),
     states |->
       [X |-> StateCfg(TRUE, Undefined, Undefined,
                 [bump |-> DefObject(Edge(Undefined, Undefined, "incNested")),
                  top  |-> DefObject(Edge(Undefined, Undefined, "inc")),
                  flip |-> DefString("Y")]),
        Y |-> StateCfg(TRUE, "incNested", Undefined,
                 [flip |-> DefString("X")])]]

\* a configuration whose `initial` is no key of `states`
OrphanConfig ==
    [initial |-> "LIMBO",
     factory |-> FALSE,
     context |-> Context(0, Undefined, 0),
     states |->
       [HOME |-> StateCfg(TRUE, Undefined, Undefined,
                    [leave |-> DefString("LIMBO")])]]

Configs == {RetryConfig, GateConfig, CounterConfig(FALSE), CounterConfig(TRUE),
            OrphanConfig}

\* the events the retry scenario sends, in order, to a fresh engine
Script == <<"fetch", "reject", "retry", "reject", "retry">>

\* the events sent to an engine in state s: every key of the state's `on`
\* mapping, the wildcard itself, an event no state knows, and the events
\* of the retry scenario the configuration knows
Events(cfg, s) ==
    (IF s \in DOMAIN cfg.states THEN DOMAIN cfg.states[s].on ELSE {})
        \cup {Wildcard, "nope"}
        \cup {e \in {Script[i] : i \in 1..Len(Script)} :
                \E t \in DOMAIN cfg.states : e \in DOMAIN cfg.states[t].on}

(***************************************************************************)
(* The engine.  A machine value m is the instance's mutable state during   *)
(* one call: #state, #previous, context, and the trace of callbacks run so *)
(* far in this call.                                                       *)
(***************************************************************************)
VARIABLES
    config,     \* this.config (readonly)
    state,      \* this.#state
    previous,   \* this.#previous
    context,    \* this.context
    subs,       \* the callbacks subscribed to "change", in subscription order
    last,       \* the last completed call and what it did
    compose,    \* the composeFsmConfig call the config came from, if any
    diagram,    \* the Mermaid texts and decoded configs the config came from, if any
    twin        \* a second instance constructed from the same config object, if any

vars == <<config, state, previous, context, subs, last, compose, diagram, twin>>

\* one entry of the trace: a callback invocation (or the state update) and
\* what was observable at that moment
Obs(step, owner, idx, result, m, ctx) ==
    [step |-> step, owner |-> owner, idx |-> idx, result |-> result,
     current |-> m.state, previous |-> m.previous, context |-> ctx]

NoEdge == Edge(Undefined, Undefined, Undefined)

\* config.states[s]
StateConfigOf(cfg, s) ==
    IF s \in DOMAIN cfg.states THEN cfg.states[s] ELSE NoStateCfg

\* on[key]
OnEntry(on, key) == IF key \in DOMAIN on THEN on[key] ELSE NoDef

\* !transitionDef
Falsy(def) == def.form = "undefined"

\* (variant: the wildcard entry takes precedence)
LookupDefWildcardFirst(on, event) ==
    IF ~Falsy(OnEntry(on, Wildcard)) THEN OnEntry(on, Wildcard)
    ELSE OnEntry(on, event)

\* the specific event first, then the wildcard
LookupDef(on, event) ==
    IF ~Falsy(OnEntry(on, event)) THEN OnEntry(on, event)
    ELSE OnEntry(on, Wildcard)

\* the nested data of the context the engine is handed is an object the
\* config holds on to: that of a static value, or of a static value a
\* factory copies from
SharesNested(cfg) == IF "shared" \in DOMAIN cfg THEN cfg.shared ELSE ~cfg.factory

\* the config object after the engine wrote ctx: the nested data of a static
\* context value is the very object the engine's context refers to, so a
\* write in place shows in config.context; a factory's output is not shared
ConfigSeenBy(cfg, ctx) ==
    IF ~SharesNested(cfg) \/ "nested" \notin DOMAIN ctx
    THEN cfg
    ELSE [cfg EXCEPT !.context.nested = ctx.nested]

\* #initContext: the factory's output, or a shallow copy of the static value
InitContext(cfg) == cfg.context

\* (variant: the guards are handed the live object itself)
ClonedContextAliased(liveRef) == liveRef

\* structuredClone(this.context): the guards are handed a fresh object
\* holding a copy of the live one
ClonedContext(liveRef) == "cloned"

\* (variant: an entry without a guard is passed over)
RECURSIVE ScanArraySkipGuardless(_, _, _, _, _, _)
ScanArraySkipGuardless(edges, i, heap, ref, payload, m) ==
    IF i > Len(edges)
    THEN [found |-> FALSE, edge |-> NoEdge, index |-> 0, heap |-> heap, m |-> m]
    ELSE LET t == edges[i] IN
         IF IsFunction(t.guard)
         THEN LET res == GuardReturns(t.guard, heap[ref], payload)
                  h2  == [heap EXCEPT ![ref] = GuardWrites(t.guard, @)]
                  m2  == [m EXCEPT !.trace =
                            Append(@, Obs("guard", m.state, i, res, m, heap[ref]))]
              IN IF res
                 THEN [found |-> TRUE, edge |-> t, index |-> i, heap |-> h2, m |-> m2]
                 ELSE ScanArraySkipGuardless(edges, i + 1, h2, ref, payload, m2)
         ELSE IF i = Len(edges)
              THEN [found |-> TRUE, edge |-> t, index |-> i, heap |-> heap, m |-> m]
              ELSE ScanArraySkipGuardless(edges, i + 1, heap, ref, payload, m)

\* the array branch of #resolveTransition, from entry i on
RECURSIVE ScanArray(_, _, _, _, _, _)
ScanArray(edges, i, heap, ref, payload, m) ==
    IF i > Len(edges)
    THEN [found |-> FALSE, edge |-> NoEdge, index |-> 0, heap |-> heap, m |-> m]
    ELSE LET t == edges[i] IN
         IF IsFunction(t.guard)
         THEN LET res == GuardReturns(t.guard, heap[ref], payload)
                  h2  == [heap EXCEPT ![ref] = GuardWrites(t.guard, @)]
                  m2  == [m EXCEPT !.trace =
                            Append(@, Obs("guard", m.state, i, res, m, heap[ref]))]
              IN IF res
                 THEN [found |-> TRUE, edge |-> t, index |-> i, heap |-> h2, m |-> m2]
                 ELSE ScanArray(edges, i + 1, h2, ref, payload, m2)
         ELSE [found |-> TRUE, edge |-> t, index |-> i, heap |-> heap, m |-> m]

\* #resolveTransition: the normalized edge, or none
ResolveTransition(m, def, payload) ==
    IF def.form = "string"
    THEN [found |-> TRUE, edge |-> def.edges[1], index |-> 1, m |-> m]
    ELSE LET heap == [live |-> m.context, cloned |-> m.context]
             ref  == ClonedContext("live")
             \* a single object resolves as a sequence of one entry does:
             \* its guard decides, and without a guard it matches
             r    == ScanArray(def.edges, 1, heap, ref, payload, m)
         IN [found |-> r.found, edge |-> r.edge, index |-> r.index,
             m |-> [r.m EXCEPT !.context = r.heap.live]]

\* (variant: only the first subscriber is called)
NotifyFirstOnly(m, ss) ==
    [m EXCEPT !.trace =
        @ \o [i \in 1..(IF Len(ss) > 0 THEN 1 ELSE 0) |->
                Obs("notify", "subscriber", ss[i], FALSE, m, m.context)]]

\* #notify: publish the current data to every subscriber
Notify(m, ss) ==
    [m EXCEPT !.trace =
        @ \o [i \in 1..Len(ss) |-> Obs("notify", "subscriber", ss[i], FALSE, m, m.context)]]

\* (variant: the callback is handed a copy, its writes are lost)
InvokeOnCopy(m, step, owner, kind, payload) ==
    [m EXCEPT !.trace = Append(@, Obs(step, owner, 0, FALSE, m, m.context))]

\* invoke a user callback on the live context
Invoke(m, step, owner, kind, payload) ==
    LET calls == CallsOf(kind)
    IN [m EXCEPT !.context = RunCalls(calls, Len(calls), @, payload),
                 !.trace = Append(@, Obs(step, owner, 0, FALSE, m, m.context))
                               \o HookCalls(kind, m)]

Returns(m) == [m |-> m, kind |-> "return", error |-> Undefined, value |-> m.state]
Throws(m, error) == [m |-> m, kind |-> "throw", error |-> error, value |-> Undefined]

\* (variant: a refusal never throws)
RefuseSilently(m, assert, error) == Returns(m)

\* a refused transition: throw in assert mode, else return the current state
Refuse(m, assert, error) == IF assert THEN Throws(m, error) ELSE Returns(m)

\* (variant: an internal transition does not notify)
InternalTransitionSilent(m, edge, payload, ss) ==
    IF IsFunction(edge.action)
    THEN Returns(Invoke(m, "action", m.state, edge.action, payload))
    ELSE Returns(m)

\* the internal branch of transition(): the action only, then notify
InternalTransition(m, edge, payload, ss) ==
    LET m1 == IF IsFunction(edge.action)
              THEN Invoke(m, "action", m.state, edge.action, payload) ELSE m
    IN Returns(Notify(m1, ss))

\* (variant: onEnter of the target runs before the state is updated)
ExternalTransitionEnterFirst(m, cfg, edge, payload, ss) ==
    LET sc == StateConfigOf(cfg, m.state)
        m1 == IF IsFunction(sc.onExit)
              THEN Invoke(m, "onExit", m.state, sc.onExit, payload) ELSE m
        m2 == IF IsFunction(edge.action)
              THEN Invoke(m1, "action", m1.state, edge.action, payload) ELSE m1
        nsc == StateConfigOf(cfg, edge.target)
        m3 == IF IsFunction(nsc.onEnter)
              THEN Invoke(m2, "onEnter", edge.target, nsc.onEnter, payload) ELSE m2
        m4 == [m3 EXCEPT !.previous = m3.state, !.state = edge.target]
        m4t == [m4 EXCEPT !.trace = Append(@, Obs("set", m3.state, 0, FALSE, m4, m4.context))]
    IN IF nsc.missing
       THEN Throws(m2, "TypeError")
       ELSE Returns(Notify(m4t, ss))

\* (variant: a transition to the current state only runs the action)
ExternalTransitionSkipSelf(m, cfg, edge, payload, ss) ==
    LET m1 == IF IsFunction(edge.action)
              THEN Invoke(m, "action", m.state, edge.action, payload) ELSE m
        nsc == StateConfigOf(cfg, edge.target)
        sc == StateConfigOf(cfg, m.state)
        x1 == IF IsFunction(sc.onExit)
              THEN Invoke(m, "onExit", m.state, sc.onExit, payload) ELSE m
        x2 == IF IsFunction(edge.action)
              THEN Invoke(x1, "action", x1.state, edge.action, payload) ELSE x1
        x3 == [x2 EXCEPT !.previous = x2.state, !.state = edge.target]
        x3t == [x3 EXCEPT !.trace = Append(@, Obs("set", x2.state, 0, FALSE, x3, x3.context))]
        x4 == IF IsFunction(nsc.onEnter)
              THEN Invoke(x3t, "onEnter", x3t.state, nsc.onEnter, payload) ELSE x3t
    IN IF edge.target = m.state
       THEN Returns(Notify(m1, ss))
       ELSE IF nsc.missing THEN Throws(x3t, "TypeError")
       ELSE Returns(Notify(x4, ss))

\* the external branch of transition()
ExternalTransition(m, cfg, edge, payload, ss) ==
    LET sc == StateConfigOf(cfg, m.state)
        \* 1. exit current state side-effect
        m1 == IF IsFunction(sc.onExit)
              THEN Invoke(m, "onExit", m.state, sc.onExit, payload) ELSE m
        \* 2. execute transition action
        m2 == IF IsFunction(edge.action)
              THEN Invoke(m1, "action", m1.state, edge.action, payload) ELSE m1
        \* 3. save previous and set new state
        m3 == [m2 EXCEPT !.previous = m2.state, !.state = edge.target]
        m3t == [m3 EXCEPT !.trace = Append(@, Obs("set", m2.state, 0, FALSE, m3, m3.context))]
        \* 4. enter new state side-effect
        nsc == StateConfigOf(cfg, edge.target)
        m4 == IF IsFunction(nsc.onEnter)
              THEN Invoke(m3t, "onEnter", m3t.state, nsc.onEnter, payload) ELSE m3t
    IN IF nsc.missing
       THEN Throws(m3t, "TypeError")
       ELSE Returns(Notify(m4, ss))

\* (variant: only a missing state entry is a configuration error)
NoTransitionsDefinedLax(sc) == sc.missing

\* !currentStateConfig || !currentStateConfig.on
NoTransitionsDefined(sc) == sc.missing \/ ~sc.hasOn

\* (variant: when every guard of the literal entry rejects, the wildcard
\* entry is tried)
TransitionWildcardFallback(m, cfg, ss, event, payload, assert) ==
    LET sc   == StateConfigOf(cfg, m.state)
        def  == LookupDef(sc.on, event)
        res  == ResolveTransition(m, def, payload)
        wild == OnEntry(sc.on, Wildcard)
        res2 == IF res.found \/ Falsy(wild) THEN res
                ELSE ResolveTransition(res.m, wild, payload)
        none == [def |-> NoDef, found |-> FALSE, edge |-> NoEdge, index |-> 0]
    IN IF NoTransitionsDefined(sc)
       THEN [call |-> Throws(m, "NoTransitionsDefined")] @@ none
       ELSE IF Falsy(def)
       THEN [call |-> Refuse(m, assert, "InvalidTransition")] @@ none
       ELSE IF ~res2.found
       THEN [call |-> Refuse(res2.m, assert, "NoValidTransition"),
             def |-> def, found |-> FALSE, edge |-> NoEdge, index |-> 0]
       ELSE [call |-> IF ~IsFunction(res2.edge.target)
                      THEN InternalTransition(res2.m, res2.edge, payload, ss)
                      ELSE ExternalTransition(res2.m, cfg, res2.edge, payload, ss),
             def |-> def, found |-> TRUE, edge |-> res2.edge, index |-> res2.index]

\* transition(event, payload, assert)
Transition(m, cfg, ss, event, payload, assert) ==
    LET sc  == StateConfigOf(cfg, m.state)
        def == LookupDef(sc.on, event)
        res == ResolveTransition(m, def, payload)
        none == [def |-> NoDef, found |-> FALSE, edge |-> NoEdge, index |-> 0]
    IN IF NoTransitionsDefined(sc)
       THEN [call |-> Throws(m, "NoTransitionsDefined")] @@ none
       ELSE IF Falsy(def)
       THEN [call |-> Refuse(m, assert, "InvalidTransition")] @@ none
       ELSE IF ~res.found
       THEN [call |-> Refuse(res.m, assert, "NoValidTransition"),
             def |-> def, found |-> FALSE, edge |-> NoEdge, index |-> 0]
       ELSE [call |-> IF ~IsFunction(res.edge.target)
                      THEN InternalTransition(res.m, res.edge, payload, ss)
                      ELSE ExternalTransition(res.m, cfg, res.edge, payload, ss),
             def |-> def, found |-> TRUE, edge |-> res.edge, index |-> res.index]

\* (variant: the query tries the transition in non-assert mode)
CanTransitionByTrying(m, cfg, event, payload) ==
    LET r == Transition(m, cfg, <<>>, event, payload, FALSE)
    IN [call |-> Returns(r.call.m), can |-> r.found,
        def |-> r.def, found |-> r.found, edge |-> r.edge, index |-> r.index]

\* canTransition(event, payload)
CanTransition(m, cfg, event, payload) ==
    LET sc  == StateConfigOf(cfg, m.state)
        def == LookupDef(sc.on, event)
        res == ResolveTransition(m, def, payload)
        none == [def |-> NoDef, found |-> FALSE, edge |-> NoEdge, index |-> 0]
    IN IF NoTransitionsDefined(sc)
       THEN [call |-> Returns(m), can |-> FALSE] @@ none
       ELSE IF Falsy(def)
       THEN [call |-> Returns(m), can |-> FALSE] @@ none
       ELSE [call |-> Returns(res.m), can |-> res.found,
             def |-> def, found |-> res.found, edge |-> res.edge, index |-> res.index]

\* what reset() returns: the instance
This == "this"

\* (variant: reset leaves #previous as it is)
ResetKeepsPrevious(m, cfg, ss) ==
    [Returns(Notify([m EXCEPT !.state = cfg.initial,
                              !.context = InitContext(ConfigSeenBy(cfg, m.context))], ss))
        EXCEPT !.value = This]

\* (variant: reset leaves the context as it is)
ResetKeepsContext(m, cfg, ss) ==
    [Returns(Notify([m EXCEPT !.state = cfg.initial, !.previous = Null], ss))
        EXCEPT !.value = This]

\* (variant: reset leaves the current state and enters the initial one
\* through their hooks)
ResetRunsHooks(m, cfg, ss) ==
    LET sc  == StateConfigOf(cfg, m.state)
        m1  == IF IsFunction(sc.onExit)
               THEN Invoke(m, "onExit", m.state, sc.onExit, Undefined) ELSE m
        m2  == [m1 EXCEPT !.state = cfg.initial, !.previous = Null,
                          !.context = InitContext(ConfigSeenBy(cfg, m1.context))]
        isc == StateConfigOf(cfg, cfg.initial)
        m3  == IF IsFunction(isc.onEnter)
               THEN Invoke(m2, "onEnter", m2.state, isc.onEnter, Undefined) ELSE m2
    IN [Returns(Notify(m3, ss)) EXCEPT !.value = This]

\* reset()
Reset(m, cfg, ss) ==
    [Returns(Notify([m EXCEPT !.state = cfg.initial, !.previous = Null,
                              !.context = InitContext(ConfigSeenBy(cfg, m.context))], ss))
        EXCEPT !.value = This]

(***************************************************************************)
(* The composer (src/src/compose-fsm-config.ts).  A fragment is a partial  *)
(* config; a context is a function from its keys to their values.          *)
(***************************************************************************)
\* a context source: absent ("none"), a static value or a factory
Source(kind, value) == [kind |-> kind, value |-> value]
NoSource == Source("none", <<>>)

\* a FSMConfigFragment
Fragment(initial, ctx, states) ==
    [falsy |-> FALSE, initial |-> initial, context |-> ctx, states |-> states]
\* false | null | undefined in the fragment list
FalsyFragment ==
    [falsy |-> TRUE, initial |-> Undefined, context |-> NoSource, states |-> <<>>]

\* the base flow: submitting goes to processing
Base ==
    Fragment("IDLE", Source("value", [authenticated |-> FALSE, nested |-> 0]),
       [IDLE       |-> StateCfg(TRUE, Undefined, "exitBase",
                          [submit |-> DefString("PROCESSING")]),
        PROCESSING |-> StateCfg(TRUE, "enterBase", Undefined,
                          [work |-> DefObject(Edge(Undefined, Undefined,
                                                   "bumpNested"))])])

\* the auth gate: submitting unauthenticated goes to the login
AuthGate ==
    Fragment(Undefined, NoSource,
       [IDLE           |-> StateCfg(TRUE, Undefined, "exitGate",
                              [submit |-> DefObject(Edge("LOGIN_REQUIRED", "notAuth",
                                                         Undefined))]),
        LOGIN_REQUIRED |-> StateCfg(TRUE, "enterGate", Undefined,
                              [login |-> DefObject(Edge("IDLE", Undefined, "signIn"))])])

\* a fragment with a context factory, the same initial state as Base and a
\* state entry without `on`
Session ==
    Fragment("IDLE", Source("factory", [authenticated |-> TRUE, user |-> "u",
                                        nested |-> 0]),
       [IDLE       |-> StateCfg(FALSE, "enterSession", Undefined, <<>>),
        PROCESSING |-> StateCfg(TRUE, Undefined, "exitSession",
                          [done |-> DefString("IDLE")])])

\* a fragment with another initial state and a definition in array form
Fallback ==
    Fragment("LOGIN_REQUIRED", NoSource,
       [IDLE |-> StateCfg(TRUE, "enterFallback", Undefined,
                    [submit |-> DefArray(<<Edge("PROCESSING", "auth", Undefined),
                                           Edge("IDLE", Undefined, Undefined)>>)])])

FragmentPool == {Base, AuthGate, Session, Fallback, FalsyFragment}
FragmentLists == UNION {[1..n -> FragmentPool] : n \in 0..MaxFragments}

\* ComposeFsmConfigOptions
Options ==
    [hooks : {"replace", "compose"}, context : {"merge", "replace"},
     onConflict : {"last-wins", "error"},
     transitions : {"replace", "prepend", "append"}]

\* normalizeToArray
NormalizeToArray(def) ==
    CASE def.form = "array"  -> def.edges
      [] def.form = "string" -> <<Edge(def.edges[1].target, Undefined, Undefined)>>
      [] OTHER               -> <<def.edges[1]>>

\* (variant: prepend and append are exchanged)
MergeDefSwapped(existingDef, newDef, mode) ==
    IF Falsy(existingDef)
    THEN newDef
    ELSE DefArray(IF mode = "prepend"
                  THEN NormalizeToArray(existingDef) \o NormalizeToArray(newDef)
                  ELSE NormalizeToArray(newDef) \o NormalizeToArray(existingDef))

\* prepend/append: the handler of one event after a fragment defined newDef
MergeDef(existingDef, newDef, mode) ==
    IF Falsy(existingDef)
    THEN newDef
    ELSE DefArray(IF mode = "prepend"
                  THEN NormalizeToArray(newDef) \o NormalizeToArray(existingDef)
                  ELSE NormalizeToArray(existingDef) \o NormalizeToArray(newDef))

\* (variant: in replace mode the earlier fragment's handler is kept)
MergeOnFirstWins(existingOn, newOn, mode) ==
    IF mode = "replace"
    THEN existingOn @@ newOn
    ELSE [e \in DOMAIN existingOn \cup DOMAIN newOn |->
            IF e \in DOMAIN newOn
            THEN MergeDef(OnEntry(existingOn, e), newOn[e], mode)
            ELSE existingOn[e]]

\* the merged `on` of a state after a fragment's `on`
MergeOn(existingOn, newOn, mode) ==
    IF mode = "replace"
    THEN newOn @@ existingOn
    ELSE [e \in DOMAIN existingOn \cup DOMAIN newOn |->
            IF e \in DOMAIN newOn
            THEN MergeDef(OnEntry(existingOn, e), newOn[e], mode)
            ELSE existingOn[e]]

\* (variant: the composed function runs the hooks in reverse order)
ComposeHooksReversed(hooks) ==
    SequenceOf([i \in 1..Len(hooks) |-> hooks[Len(hooks) + 1 - i]])

\* composeHooks: one function that runs the hooks in sequence
ComposeHooks(hooks) == SequenceOf(hooks)

\* the state of the composer's loop
Collector == [onEnter |-> <<>>, onExit |-> <<>>]
EmptyAcc ==
    [kind |-> "config", error |-> Undefined, initial |-> Undefined,
     contextSources |-> <<>>, mergedStates |-> <<>>, hookCollectors |-> <<>>]

\* (variant: the first fragment's initial is kept)
MergeInitialFirstWins(acc, fragment, opts) ==
    IF fragment.initial = Undefined
    THEN acc
    ELSE IF opts.onConflict = "error" /\ acc.initial # Undefined
              /\ acc.initial # fragment.initial
         THEN [acc EXCEPT !.kind = "throw", !.error = "InitialConflict"]
         ELSE IF acc.initial # Undefined THEN acc
              ELSE [acc EXCEPT !.initial = fragment.initial]

\* handle initial
MergeInitial(acc, fragment, opts) ==
    IF fragment.initial = Undefined
    THEN acc
    ELSE IF opts.onConflict = "error" /\ acc.initial # Undefined
              /\ acc.initial # fragment.initial
         THEN [acc EXCEPT !.kind = "throw", !.error = "InitialConflict"]
         ELSE [acc EXCEPT !.initial = fragment.initial]

\* handle context
MergeContextSource(acc, fragment) ==
    IF fragment.context.kind = "none"
    THEN acc
    ELSE [acc EXCEPT !.contextSources = Append(@, fragment.context)]

\* one state entry of a fragment merged into mergedStates[name]
MergedState(acc, name, sc, opts) ==
    LET ms  == IF name \in DOMAIN acc.mergedStates
               THEN acc.mergedStates[name]
               ELSE StateCfg(TRUE, Undefined, Undefined, <<>>)
        on2 == IF sc.hasOn THEN MergeOn(ms.on, sc.on, opts.transitions) ELSE ms.on
    IN IF opts.hooks = "compose"
       THEN [ms EXCEPT !.on = on2]
       ELSE [ms EXCEPT !.on = on2,
                       !.onEnter = IF IsFunction(sc.onEnter) THEN sc.onEnter ELSE @,
                       !.onExit  = IF IsFunction(sc.onExit) THEN sc.onExit ELSE @]

\* hookCollectors[name] after one state entry of a fragment
CollectedHooks(acc, name, sc, opts) ==
    LET col == IF name \in DOMAIN acc.hookCollectors
               THEN acc.hookCollectors[name]
               ELSE Collector
    IN IF opts.hooks = "compose"
       THEN [onEnter |-> IF IsFunction(sc.onEnter)
                         THEN Append(col.onEnter, sc.onEnter) ELSE col.onEnter,
             onExit  |-> IF IsFunction(sc.onExit)
                         THEN Append(col.onExit, sc.onExit) ELSE col.onExit]
       ELSE col

\* merge states: the state entries of one fragment
MergeStates(acc, fragment, opts) ==
    LET names == DOMAIN acc.mergedStates \cup DOMAIN fragment.states
    IN [acc EXCEPT
          !.mergedStates =
              [n \in names |->
                 IF n \in DOMAIN fragment.states
                 THEN MergedState(acc, n, fragment.states[n], opts)
                 ELSE acc.mergedStates[n]],
          !.hookCollectors =
              [n \in names |->
                 IF n \in DOMAIN fragment.states
                 THEN CollectedHooks(acc, n, fragment.states[n], opts)
                 ELSE acc.hookCollectors[n]]]

\* the body of the loop over the valid fragments; a throw ends the loop
RECURSIVE MergeFragments(_, _, _, _)
MergeFragments(fragments, i, acc, opts) ==
    IF i > Len(fragments) \/ acc.kind = "throw"
    THEN acc
    ELSE LET a1 == MergeInitial(acc, fragments[i], opts)
         IN IF a1.kind = "throw"
            THEN a1
            ELSE MergeFragments(fragments, i + 1,
                    MergeStates(MergeContextSource(a1, fragments[i]), fragments[i], opts),
                    opts)

\* in compose mode, create the composed hook functions
FinishHooks(acc, opts) ==
    IF opts.hooks = "compose"
    THEN [n \in DOMAIN acc.mergedStates |->
            LET col == acc.hookCollectors[n]
            IN [acc.mergedStates[n] EXCEPT
                  !.onEnter = IF Len(col.onEnter) > 0 THEN ComposeHooks(col.onEnter) ELSE @,
                  !.onExit  = IF Len(col.onExit) > 0 THEN ComposeHooks(col.onExit) ELSE @]]
    ELSE acc.mergedStates

\* (variant: earlier keys win)
RECURSIVE MergedContextFirstWins(_, _)
MergedContextFirstWins(sources, i) ==
    IF i = 0 THEN <<>> ELSE MergedContextFirstWins(sources, i - 1) @@ sources[i].value

\* what the merging factory returns: every source's value, later keys win
RECURSIVE MergedContext(_, _)
MergedContext(sources, i) ==
    IF i = 0 THEN <<>> ELSE sources[i].value @@ MergedContext(sources, i - 1)

\* (variant: the sources are merged whatever the mode)
ComposedContextAlwaysMerged(sources, mode) ==
    IF Len(sources) = 0
    THEN NoSource
    ELSE Source("factory", MergedContext(sources, Len(sources)))

\* handle context based on mode
ComposedContext(sources, mode) ==
    IF Len(sources) = 0
    THEN NoSource
    ELSE IF mode = "replace"
         THEN sources[Len(sources)]
         ELSE Source("factory", MergedContext(sources, Len(sources)))

\* the nested data of the composed context is that of a static source: the
\* spread copies the reference, a factory source makes it anew
ComposedShares(sources, mode) ==
    LET from == IF mode = "replace"
                THEN {i \in {Len(sources)} : i > 0}
                ELSE {i \in 1..Len(sources) : "nested" \in DOMAIN sources[i].value}
    IN from # {} /\ sources[CHOOSE i \in from : \A j \in from : j <= i].kind = "value"

\* (variant: falsy entries are not filtered out)
ValidFragmentsKeepAll(fragments) == fragments

\* filter out falsy values
ValidFragments(fragments) == SelectSeq(fragments, LAMBDA f : ~f.falsy)

\* a failed call of composeFsmConfig
ComposeThrows(error) ==
    [kind |-> "throw", error |-> error, initial |-> Undefined, states |-> <<>>,
     context |-> NoSource, shared |-> FALSE]

\* composeFsmConfig(fragments, options)
ComposeFsmConfig(fragments, opts) ==
    LET valid == ValidFragments(fragments)
        acc   == MergeFragments(valid, 1, EmptyAcc, opts)
    IN IF Len(valid) = 0
       THEN ComposeThrows("NoFragments")
       ELSE IF acc.kind = "throw"
            THEN ComposeThrows(acc.error)
            ELSE IF acc.initial = Undefined
                 THEN ComposeThrows("NoInitial")
                 ELSE [kind |-> "config", error |-> Undefined,
                       initial |-> acc.initial, states |-> FinishHooks(acc, opts),
                       context |-> ComposedContext(acc.contextSources, opts.context),
                       shared |-> ComposedShares(acc.contextSources, opts.context)]

\* an object created by the call itself
Fresh == 0

\* (variant: the first fragment that names a state lends its own entry)
StateObjectAdopted(fragments, i, name) ==
    CHOOSE j \in 1..i :
        /\ name \in DOMAIN fragments[j].states
        /\ \A k \in 1..(j - 1) : name \notin DOMAIN fragments[k].states

\* the object mergedStates[name] refers to when the i-th valid fragment
\* names the state: `{ on: {} }`, created when the state is first seen, and
\* never an entry of a fragment (the number of the fragment it would be)
StateObject(fragments, i, name) == Fresh

\* the valid fragments after the call: every assignment of the loop and of
\* the hook composition goes to mergedStates[name] or to its `on`, and
\* shows in whatever that object is an entry of; a fragment's definitions,
\* arrays and context value are read and spread, never assigned to
FragmentsAfter(fragments, opts) ==
    LET valid  == ValidFragments(fragments)
        acc    == MergeFragments(valid, 1, EmptyAcc, opts)
        merged == IF acc.kind = "throw" THEN acc.mergedStates
                  ELSE FinishHooks(acc, opts)
        seen(i, n) == n \in DOMAIN merged /\ n \in DOMAIN valid[i].states
    IN [k \in 1..Len(valid) |->
          [valid[k] EXCEPT !.states =
              [n \in DOMAIN valid[k].states |->
                  IF \E i \in k..Len(valid) :
                        seen(i, n) /\ StateObject(valid, i, n) = k
                  THEN merged[n]
                  ELSE valid[k].states[n]]]]

\* the composed FSMConfig as the engine reads it: an absent context is {}
EngineConfig(composed) ==
    [initial |-> composed.initial,
     factory |-> composed.context.kind = "factory",
     context |-> composed.context.value,
     states  |-> composed.states,
     shared  |-> composed.shared]

(***************************************************************************)
(* The state machine: one action per public operation.                     *)
(***************************************************************************)
\* the instance as a call finds it
Machine == [state |-> state, previous |-> previous, context |-> context, trace |-> <<>>]

Pre == [state |-> state, previous |-> previous, context |-> context, subs |-> subs]

OffScript == 0 - 1

\* how many events of the scenario the engine has received since construction
\* or reset, given that it received nothing else; OffScript otherwise
Advance(op, event) ==
    CASE compose.kind # "none" \/ config.initial # RetryConfig.initial -> OffScript
      [] op = "reset" -> 0
      [] op = "transition" ->
           IF last.script \in 0..(Len(Script) - 1) /\ event = Script[last.script + 1]
           THEN last.script + 1 ELSE OffScript
      [] OTHER -> last.script

Record(op, event, payload, assert, r, can) ==
    [op |-> op, event |-> event, payload |-> payload, assert |-> assert,
     pre |-> Pre, def |-> r.def, found |-> r.found, edge |-> r.edge, index |-> r.index,
     kind |-> r.call.kind, error |-> r.call.error, value |-> r.call.value,
     can |-> can, trace |-> r.call.m.trace, script |-> Advance(op, event)]

Plain(call) == [call |-> call, def |-> NoDef, found |-> FALSE, edge |-> NoEdge, index |-> 0]

\* the config was written by hand
NotComposed ==
    [fragments |-> <<>>, options |-> CHOOSE o \in Options : TRUE, kind |-> "none",
     error |-> Undefined, context |-> NoSource]

\* no second instance was constructed from the config object
NoTwin == [actor |-> 0]

\* no Mermaid text is involved
NoDiagram == [origin |-> "none", texts |-> <<>>, decoded |-> <<>>, head |-> "none"]

Init ==
    /\ config \in Configs
    /\ state = config.initial
    /\ previous = Null
    /\ context = InitContext(config)
    /\ subs = <<>>
    /\ last = [op |-> "new", event |-> Undefined, payload |-> Undefined, assert |-> TRUE,
               pre |-> [state |-> config.initial, previous |-> Null,
                        context |-> InitContext(config), subs |-> <<>>],
               def |-> NoDef, found |-> FALSE, edge |-> NoEdge, index |-> 0,
               kind |-> "return", error |-> Undefined, value |-> Undefined,
               can |-> FALSE, trace |-> <<>>,
               script |-> IF config.initial = RetryConfig.initial THEN 0 ELSE OffScript]
    /\ compose = NotComposed
    /\ diagram = NoDiagram
    /\ twin = NoTwin

Commit(m) ==
    /\ state' = m.state
    /\ previous' = m.previous
    /\ context' = m.context
    /\ config' = ConfigSeenBy(config, m.context)
    /\ UNCHANGED <<compose, diagram, twin>>

DoTransition ==
    \E event \in Events(config, state), payload \in Payloads, assert \in BOOLEAN :
        /\ context.attempts < MaxAttempts
        /\ context.nested < MaxWrites
        /\ LET r == Transition(Machine, config, subs, event, payload, assert)
           IN /\ Commit(r.call.m)
              /\ last' = Record("transition", event, payload, assert, r, FALSE)
        /\ UNCHANGED subs

DoCanTransition ==
    \E event \in Events(config, state), payload \in Payloads :
        /\ context.attempts < MaxAttempts
        /\ context.nested < MaxWrites
        /\ LET r == CanTransition(Machine, config, event, payload)
           IN /\ Commit(r.call.m)
              /\ last' = Record("canTransition", event, payload, TRUE, r, r.can)
        /\ UNCHANGED subs

DoReset ==
    /\ LET r == Plain(Reset(Machine, config, subs))
       IN /\ Commit(r.call.m)
          /\ last' = Record("reset", Undefined, Undefined, TRUE, r, FALSE)
    /\ UNCHANGED subs

\* subscribe(cb): register, then call cb with the current data
DoSubscribe ==
    \E id \in SubIds :
        /\ \A i \in 1..Len(subs) : subs[i] # id
        /\ subs' = Append(subs, id)
        /\ LET r == [Plain(Returns(Notify(Machine, <<id>>))) EXCEPT !.index = id]
           IN last' = Record("subscribe", Undefined, Undefined, TRUE, r, FALSE)
        /\ UNCHANGED <<config, state, previous, context, compose, diagram, twin>>

\* the unsubscribe function returned by subscribe(cb)
DoUnsubscribe ==
    \E id \in SubIds :
        /\ \E i \in 1..Len(subs) : subs[i] = id
        /\ subs' = SelectSeq(subs, LAMBDA x : x # id)
        /\ last' = Record("unsubscribe", Undefined, Undefined, TRUE,
                          [Plain(Returns(Machine)) EXCEPT !.index = id], FALSE)
        /\ UNCHANGED <<config, state, previous, context, compose, diagram, twin>>

Next ==
    \/ DoTransition
    \/ DoCanTransition
    \/ DoReset
    \/ DoSubscribe
    \/ DoUnsubscribe

Spec == Init /\ [][Next]_vars

(***************************************************************************)
(* Composition: composeFsmConfig is called on a fragment list, and the     *)
(* engine created from its result is driven.                               *)
(***************************************************************************)
\* no engine yet
NoConfig == [initial |-> Null, factory |-> FALSE, context |-> <<>>, states |-> <<>>]

\* the record of the constructor call
Constructed(cfg) ==
    [op |-> "new", event |-> Undefined, payload |-> Undefined, assert |-> TRUE,
     pre |-> [state |-> cfg.initial, previous |-> Null,
              context |-> InitContext(cfg), subs |-> <<>>],
     def |-> NoDef, found |-> FALSE, edge |-> NoEdge, index |-> 0,
     kind |-> "return", error |-> Undefined, value |-> Undefined,
     can |-> FALSE, trace |-> <<>>, script |-> OffScript]

InitCompose ==
    /\ compose \in [fragments : FragmentLists, options : Options, kind : {"pending"},
                    error : {Undefined}, context : {NoSource}]
    /\ config = NoConfig
    /\ state = Null
    /\ previous = Null
    /\ context = <<>>
    /\ subs = <<>>
    /\ last = [Constructed(NoConfig) EXCEPT !.op = "none"]
    /\ diagram = NoDiagram
    /\ twin = NoTwin

\* createFsm(composeFsmConfig(fragments, options))
DoCompose ==
    /\ compose.kind = "pending"
    /\ LET composed == ComposeFsmConfig(compose.fragments, compose.options)
           cfg      == EngineConfig(composed)
       IN /\ compose' = [compose EXCEPT !.kind = composed.kind,
                                        !.error = composed.error,
                                        !.context = composed.context]
          /\ IF composed.kind = "config"
             THEN /\ config' = cfg
                  /\ state' = cfg.initial
                  /\ previous' = Null
                  /\ context' = InitContext(cfg)
                  /\ last' = Constructed(cfg)
             ELSE UNCHANGED <<config, state, previous, context, last>>
    /\ UNCHANGED <<subs, diagram, twin>>

\* transition(event) on the engine of the composed config
DoTransitionComposed ==
    \E event \in Events(config, state) :
        /\ compose.kind = "config"
        /\ "nested" \in DOMAIN context => context.nested < MaxWrites
        /\ LET r == Transition(Machine, config, subs, event, Undefined, TRUE)
           IN /\ Commit(r.call.m)
              /\ last' = Record("transition", event, Undefined, TRUE, r, FALSE)
        /\ UNCHANGED subs

\* reset() on the engine of the composed config
DoResetComposed ==
    /\ compose.kind = "config"
    /\ DoReset

NextCompose ==
    \/ DoCompose
    \/ DoTransitionComposed
    \/ DoResetComposed

SpecCompose == InitCompose /\ [][NextCompose]_vars

(***************************************************************************)
(* The Mermaid codec: toMermaid (src/src/fsm.ts) and fromMermaid           *)
(* (from-mermaid.ts).  A text is the sequence of its lines; a line is its  *)
(* indentation and the rest.  An object a codec iterates over is the       *)
(* sequence of its entries [key, value] in insertion order.                *)
(***************************************************************************)
\* the most transition lines of a diagram, and entries of a config
MaxLines == 2
\* the most times a text is decoded in a row
MaxPasses == 2

Line(indent, body) == [indent |-> indent, body |-> body]
\* line.trim()
Trim(line) == line.body

\* names of word characters only (\w+), and one that is not
WordNames == {"A", "B", "C"}
Names == WordNames \cup {"my-state"}
\* event names, and one that ends as a guard marker does
PlainEvents == {"go", "tick", Wildcard}
MarkedEvents == {"go [guarded]"}
EventNames == PlainEvents \cup MarkedEvents

\* the label text of an event: the wildcard is spelled out
EventText(evt) == IF evt = Wildcard THEN "* (any)" ELSE evt

\* the guard index toMermaid passes to formatLabel: a number or null
Idx(n) == [isNull |-> FALSE, n |-> n]
NullIdx == [isNull |-> TRUE, n |-> 0]

\* formatLabel: "Event [Guard] / Action"
FormatLabel(evt, guardIdx, hasAction, isInternal) ==
    LET l0 == EventText(evt)
        l1 == IF guardIdx # NullIdx
              THEN l0 \o " [guard " \o ToString(guardIdx.n) \o "]"
              ELSE IF guardIdx = Idx(0 - 1) THEN l0 \o " [guarded]"
              ELSE l0
    IN IF hasAction
       THEN IF isInternal THEN l1 \o " / (action internal)" ELSE l1 \o " / (action)"
       ELSE l1

\* !!v of a callback or target: neither undefined nor null
Truthy(v) == v # Undefined /\ v # Null

\* the lines of one `on` entry
DefLines(stateName, event, def) ==
    IF def.form = "string"
    THEN <<Line(4, stateName \o " --> " \o def.edges[1].target \o ": "
                      \o EventText(event))>>
    ELSE IF def.form = "array"
    THEN [idx \in 1..Len(def.edges) |->
            LET t == def.edges[idx]
                target == IF Truthy(t.target) THEN t.target ELSE stateName
                label == FormatLabel(event, Idx(idx), Truthy(t.action), ~Truthy(t.target))
            IN Line(4, stateName \o " --> " \o target \o ": " \o label)]
    ELSE LET t == def.edges[1]
             target == IF Truthy(t.target) THEN t.target ELSE stateName
             label == FormatLabel(event, IF Truthy(t.guard) THEN Idx(0 - 1) ELSE NullIdx,
                                  Truthy(t.action), ~Truthy(t.target))
         IN <<Line(4, stateName \o " --> " \o target \o ": " \o label)>>

\* the lines of the first k entries of a state's `on`
RECURSIVE OnLines(_, _, _)
OnLines(stateName, on, k) ==
    IF k = 0 THEN <<>>
    ELSE OnLines(stateName, on, k - 1) \o DefLines(stateName, on[k].key, on[k].value)

\* (variant: the states are written last to first)
RECURSIVE StatesLinesReversed(_, _)
StatesLinesReversed(states, k) ==
    IF k = 0 THEN <<>>
    ELSE LET on == IF states[k].value.hasOn THEN states[k].value.on ELSE <<>>
         IN OnLines(states[k].key, on, Len(on)) \o StatesLinesReversed(states, k - 1)

\* the lines of the first k states
RECURSIVE StatesLines(_, _)
StatesLines(states, k) ==
    IF k = 0 THEN <<>>
    ELSE LET on == IF states[k].value.hasOn THEN states[k].value.on ELSE <<>>
         IN StatesLines(states, k - 1) \o OnLines(states[k].key, on, Len(on))

\* toMermaid(): the header, the initial state, then the lines of every state
ToMermaid(cfg) ==
    <<Line(0, "stateDiagram-v2"), Line(4, "[*] --> " \o cfg.initial)>>
        \o StatesLines(cfg.states, Len(cfg.states))

\* ---- the decoder ----
\* the markers a label can end in
GuardNumbers == {0 - 1} \cup (1..MaxLines)
GuardMarkers == {" [guarded]"} \cup {" [guard " \o ToString(n) \o "]" : n \in GuardNumbers}
ActionMarker == " / (action)"
InternalMarker == " / (action internal)"
ActionMarkers == {ActionMarker, InternalMarker}

\* what a label is once its action suffix is taken off
Stems == {EventText(e) \o g : e \in EventNames, g \in GuardMarkers \cup {""}}
\* a label with an action suffix, split at the suffix
ActionSplits ==
    {[label |-> s \o a, rest |-> s, marker |-> a] : s \in Stems, a \in ActionMarkers}
\* label.match(/\s*\/\s*\((action(?:\s+internal)?)\)$/)
ActionMatch(label) == {m \in ActionSplits : m.label = label}
\* an event text with a guard suffix, split at the suffix
GuardSplits ==
    {[event |-> EventText(e) \o g, rest |-> EventText(e), marker |-> g] :
        e \in EventNames, g \in GuardMarkers}
\* event.match(/\s*\[(guard(?:\s+[^\]]+)?|guarded)\]$/)
GuardMatch(event) == {m \in GuardSplits : m.event = event}

\* parseLabel: the action suffix is taken off, then the guard suffix; what
\* is left is the event
ParseLabel(label) ==
    LET am == ActionMatch(label)
        hasAction == am # {}
        a == CHOOSE m \in am : TRUE
        event1 == IF hasAction THEN a.rest ELSE label
        gm == GuardMatch(event1)
        hasGuard == gm # {}
        event2 == IF hasGuard THEN (CHOOSE m \in gm : TRUE).rest ELSE event1
    IN [event |-> IF event2 = "* (any)" THEN Wildcard ELSE event2,
        hasGuard |-> hasGuard,
        hasAction |-> hasAction,
        isInternalAction |-> hasAction /\ a.marker = InternalMarker]

\* line.trim().startsWith("stateDiagram-v2")
HeaderLines == {"stateDiagram-v2"}
IsHeader(body) == body \in HeaderLines
\* the lines the decoder skips: empty, a comment, a final-state transition
SkippedLines == {"", "%% note", "A --> [*]"}
Skipped(body) == body \in SkippedLines

\* the lines /^\[\*\]\s*-->\s*(\w+)$/ matches
InitialLines == {[body |-> "[*] --> " \o s, state |-> s] : s \in WordNames}
InitialMatch(body) == {m \in InitialLines : m.body = body}
\* the lines /^(\w+)\s*-->\s*(\w+):\s*(.+)$/ matches
Labels == Stems \cup {m.label : m \in ActionSplits}
TransitionLines ==
    {[body |-> f \o " --> " \o t \o ": " \o l, fromState |-> f, toState |-> t, label |-> l] :
        f \in WordNames, t \in WordNames, l \in Labels}
TransitionMatch(body) == {m \in TransitionLines : m.body = body}

\* the index of the entry of a key, 0 when there is none
KeyIndex(entries, key) ==
    IF \E i \in 1..Len(entries) : entries[i].key = key
    THEN CHOOSE i \in 1..Len(entries) : entries[i].key = key
    ELSE 0
Entry(key, value) == [key |-> key, value |-> value]

\* a self-loop marked internal has no target; placeholders are null
TransitionObj(from, to, parsed) ==
    IF from = to /\ parsed.isInternalAction
    THEN Edge(Undefined, Undefined, IF parsed.hasAction THEN Null ELSE Undefined)
    ELSE Edge(to, IF parsed.hasGuard THEN Null ELSE Undefined,
              IF parsed.hasAction THEN Null ELSE Undefined)

\* statesMap after the object of (from, event) is pushed
Push(statesMap, from, event, obj) ==
    LET sm == IF KeyIndex(statesMap, from) = 0
              THEN Append(statesMap, Entry(from, <<>>)) ELSE statesMap
        si == KeyIndex(sm, from)
        tr == IF KeyIndex(sm[si].value, event) = 0
              THEN Append(sm[si].value, Entry(event, <<>>)) ELSE sm[si].value
        ei == KeyIndex(tr, event)
    IN [sm EXCEPT ![si].value = [tr EXCEPT ![ei].value = Append(@, obj)]]

\* the loop over the lines after the header, from line i on
RECURSIVE ScanLines(_, _, _)
ScanLines(lines, i, acc) ==
    IF i > Len(lines) THEN acc
    ELSE LET line == Trim(lines[i])
             im == InitialMatch(line)
             tm == TransitionMatch(line)
         IN IF Skipped(line) THEN ScanLines(lines, i + 1, acc)
            ELSE IF im # {}
            THEN ScanLines(lines, i + 1,
                           [acc EXCEPT !.initial = (CHOOSE m \in im : TRUE).state])
            ELSE IF tm # {}
            THEN LET m == CHOOSE x \in tm : TRUE
                     parsed == ParseLabel(m.label)
                 IN ScanLines(lines, i + 1,
                        [acc EXCEPT !.statesMap =
                            Push(@, m.fromState, parsed.event,
                                 TransitionObj(m.fromState, m.toState, parsed))])
            ELSE ScanLines(lines, i + 1, acc)

\* a single entry with a target and neither guard nor action is the bare
\* target; any other single entry is the object; several are the array
OnValue(transitionArray) ==
    IF Len(transitionArray) = 1
    THEN LET t == transitionArray[1]
             hasOnlyTarget == Truthy(t.target) /\ t.guard = Undefined
                                  /\ t.action = Undefined
         IN IF hasOnlyTarget THEN DefString(t.target) ELSE DefObject(t)
    ELSE DefArray(transitionArray)

\* "Convert to FSM config format": a states entry per source state
ConvertStates(statesMap) ==
    [i \in 1..Len(statesMap) |->
        Entry(statesMap[i].key,
              StateCfg(TRUE, Undefined, Undefined,
                       [j \in 1..Len(statesMap[i].value) |->
                           Entry(statesMap[i].value[j].key,
                                 OnValue(statesMap[i].value[j].value))]))]

\* lines.findIndex(header), 0 when there is none
FindHeader(lines) ==
    IF \E i \in 1..Len(lines) : IsHeader(Trim(lines[i]))
    THEN CHOOSE i \in 1..Len(lines) :
            /\ IsHeader(Trim(lines[i]))
            /\ \A j \in 1..(i - 1) : ~IsHeader(Trim(lines[j]))
    ELSE 0

\* what a call of the decoder comes to: a config, or an error thrown
Decoded(cfg) == [kind |-> "config", error |-> Undefined, config |-> cfg]
NoOrdered == [initial |-> Null, states |-> <<>>]
DecodeThrows(error) == [kind |-> "throw", error |-> error, config |-> NoOrdered]

\* (variant: a diagram without an initial line starts in its first state)
FromMermaidFirstState(lines) ==
    LET startIndex == FindHeader(lines)
        acc == ScanLines(lines, startIndex + 1, [initial |-> Null, statesMap |-> <<>>])
    IN IF startIndex = 0 THEN DecodeThrows("NoHeader")
       ELSE IF acc.initial = Null /\ Len(acc.statesMap) = 0 THEN DecodeThrows("NoInitial")
       ELSE Decoded([initial |-> IF acc.initial = Null THEN acc.statesMap[1].key
                                 ELSE acc.initial,
                     states |-> ConvertStates(acc.statesMap)])

\* fromMermaid(text)
FromMermaid(lines) ==
    LET startIndex == FindHeader(lines)
        acc == ScanLines(lines, startIndex + 1, [initial |-> Null, statesMap |-> <<>>])
    IN IF startIndex = 0 THEN DecodeThrows("NoHeader")
       ELSE IF acc.initial = Null THEN DecodeThrows("NoInitial")
       ELSE Decoded([initial |-> acc.initial, states |-> ConvertStates(acc.statesMap)])

\* the config as the engine reads it: states and `on` by key
OnByKey(on) == [e \in {on[j].key : j \in 1..Len(on)} |-> on[KeyIndex(on, e)].value]
ByKey(cfg) ==
    [initial |-> cfg.initial,
     factory |-> FALSE,
     context |-> IF "context" \in DOMAIN cfg THEN cfg.context ELSE <<>>,
     states  |-> [s \in {cfg.states[i].key : i \in 1..Len(cfg.states)} |->
                    LET sc == cfg.states[KeyIndex(cfg.states, s)].value
                    IN [sc EXCEPT !.on = OnByKey(@)]]]

\* ---- the texts and configs the codec is given ----
\* a config of bare targets, from its (source, event, target) entries in
\* insertion order; with listed, the states that are only targets have an
\* entry with an empty `on`
Arc(s, e, t) == [source |-> s, event |-> e, target |-> t]
RECURSIVE ArcStates(_, _)
ArcStates(arcs, k) ==
    IF k = 0 THEN <<>>
    ELSE LET states == ArcStates(arcs, k - 1)
             a  == arcs[k]
             si == KeyIndex(states, a.source)
             on == IF si = 0 THEN <<>> ELSE states[si].value.on
             sc == StateCfg(TRUE, Undefined, Undefined,
                            Append(on, Entry(a.event, DefString(a.target))))
         IN IF si = 0 THEN Append(states, Entry(a.source, sc))
            ELSE [states EXCEPT ![si] = Entry(a.source, sc)]
RECURSIVE WithTargets(_, _, _)
WithTargets(states, arcs, k) ==
    IF k = 0 THEN states
    ELSE LET ss == WithTargets(states, arcs, k - 1)
         IN IF KeyIndex(ss, arcs[k].target) # 0 THEN ss
            ELSE Append(ss, Entry(arcs[k].target,
                                  StateCfg(TRUE, Undefined, Undefined, <<>>)))
TargetsOnly(initial, arcs, listed) ==
    [initial |-> initial,
     states |-> IF listed THEN WithTargets(ArcStates(arcs, Len(arcs)), arcs, Len(arcs))
                ELSE ArcStates(arcs, Len(arcs))]

ArcPool ==
    {Arc("A", "go", "B"), Arc("B", "go", "A"), Arc("A", Wildcard, "C"),
     Arc("B", "tick", "B"), Arc("my-state", "go", "A"), Arc("A", "go [guarded]", "B")}
ArcLists ==
    {arcs \in UNION {[1..n -> ArcPool] : n \in 0..MaxLines} :
        \A i, j \in 1..Len(arcs) :
            (arcs[i].source = arcs[j].source /\ arcs[i].event = arcs[j].event) => i = j}
TargetsOnlyConfigs ==
    {TargetsOnly(initial, arcs, listed) :
        initial \in {"A", "my-state"}, arcs \in ArcLists, listed \in BOOLEAN}

\* a config with every form of `on` entry the encoder tells apart
PlayerConfig ==
    [initial |-> "A",
     context |-> Context(0, Undefined, 0),
     states |->
       <<Entry("A", StateCfg(TRUE, Undefined, "inc",
            <<Entry("go",   DefArray(<<Edge("B", "lt", Undefined),
                                       Edge(Undefined, Undefined, "inc")>>)),
              Entry("tick", DefObject(Edge(Undefined, Undefined, "inc"))),
              Entry(Wildcard, DefObject(Edge("C", Undefined, "inc")))>>)),
         Entry("B", StateCfg(TRUE, "inc", Undefined,
            <<Entry("go",   DefArray(<<Edge("C", "ge", "inc"),
                                       Edge("B", Undefined, Undefined)>>)),
              Entry("tick", DefObject(Edge(Undefined, "lt", "inc"))),
              Entry(Wildcard, DefString("A"))>>)),
         Entry("C", StateCfg(TRUE, Undefined, Undefined,
            <<Entry("go",   DefObject(Edge("B", "lt", Undefined))),
              Entry("tick", DefObject(Edge("A", "lt", "inc"))),
              Entry(Wildcard, DefObject(Edge("B", Undefined, Undefined)))>>))>>]

GivenConfigs == TargetsOnlyConfigs \cup {PlayerConfig}

\* the lines of the texts: an initial state with a word name and with
\* another, a comment, and transitions with and without markers
BodyPool ==
    {Line(4, "[*] --> A"), Line(4, "[*] --> my-state"), Line(4, "%% note"),
     Line(4, "A --> B: go"),
     Line(4, "A --> C: go [guarded]"),
     Line(4, "A --> A: tick / (action internal)"),
     Line(4, "B --> A: * (any) [guard 1] / (action)"),
     Line(4, "B --> C: go")}
\* a text: possibly an initial line ahead of the header, the header or
\* none, and lines
GivenTexts ==
    {pre \o hdr \o body :
        pre \in {<<>>, <<Line(4, "[*] --> B")>>},
        hdr \in {<<>>, <<Line(0, "stateDiagram-v2")>>},
        body \in UNION {[1..n -> BodyPool] : n \in 0..(MaxLines + 1)}}

\* ---- the state machine of the codec ----
\* the diagram variable: where the chain started, the texts given or
\* encoded, the results of decoding (the given config counts as one), and
\* what came last
Chain(origin, texts, decoded, head) ==
    [origin |-> origin, texts |-> texts, decoded |-> decoded, head |-> head]

InitMermaid ==
    /\ compose = NotComposed
    /\ subs = <<>>
    /\ twin = NoTwin
    /\ \/ /\ \E text \in GivenTexts : diagram = Chain("text", <<text>>, <<>>, "text")
          /\ config = NoConfig
          /\ state = Null
          /\ previous = Null
          /\ context = <<>>
          /\ last = [Constructed(NoConfig) EXCEPT !.op = "none"]
       \/ \E cfg \in GivenConfigs :
             /\ diagram = Chain("config", <<>>, <<Decoded(cfg)>>, "config")
             /\ config = ByKey(cfg)
             /\ state = cfg.initial
             /\ previous = Null
             /\ context = InitContext(ByKey(cfg))
             /\ last = Constructed(ByKey(cfg))

\* FSM.fromMermaid(text): new FSM(fromMermaid(text))
DoFromMermaid ==
    /\ diagram.head = "text"
    /\ Len(diagram.decoded) < MaxPasses
    /\ LET d == FromMermaid(diagram.texts[Len(diagram.texts)])
           cfg == ByKey(d.config)
       IN /\ diagram' = [diagram EXCEPT !.decoded = Append(@, d), !.head = d.kind]
          /\ IF d.kind = "config"
             THEN /\ config' = cfg
                  /\ state' = cfg.initial
                  /\ previous' = Null
                  /\ context' = InitContext(cfg)
                  /\ last' = Constructed(cfg)
             ELSE UNCHANGED <<config, state, previous, context, last>>
    /\ UNCHANGED <<subs, compose, twin>>

\* the config the engine holds, with its keys in order
HeldConfig == diagram.decoded[Len(diagram.decoded)].config

\* toMermaid() of the engine
DoToMermaid ==
    /\ diagram.head = "config"
    /\ Len(diagram.texts) < MaxPasses
    /\ diagram' = [diagram EXCEPT !.texts = Append(@, ToMermaid(HeldConfig)),
                                  !.head = "text"]
    /\ UNCHANGED <<config, state, previous, context, subs, last, compose, twin>>

\* transition(event) on the engine
DoTransitionDecoded ==
    \E event \in Events(config, state), assert \in BOOLEAN :
        /\ diagram.head = "config"
        /\ "attempts" \in DOMAIN context => context.attempts < MaxAttempts
        /\ LET r == Transition(Machine, config, subs, event, Undefined, assert)
           IN /\ state' = r.call.m.state
              /\ previous' = r.call.m.previous
              /\ context' = r.call.m.context
              /\ last' = Record("transition", event, Undefined, assert, r, FALSE)
        /\ UNCHANGED <<config, subs, compose, diagram, twin>>

NextMermaid ==
    \/ DoFromMermaid
    \/ DoToMermaid
    \/ DoTransitionDecoded

SpecMermaid == InitMermaid /\ [][NextMermaid]_vars

(***************************************************************************)
(* Reentrancy and exceptions.  A callback may throw, and a hook, an action *)
(* or a subscriber may call transition() on the engine it is run by: the   *)
(* nested call runs to completion inside the step of the outer call that   *)
(* invoked the callback.  Every entry of the trace carries the depth of    *)
(* the transition() call it belongs to.                                    *)
(***************************************************************************)
\* the number of nested transition() calls the call stack holds
MaxDepth == 4

\* a callback that throws
Thrower == "throw"
\* the callbacks that call transition(event) on their engine, and the event
Reentrant == [callHop |-> "hop", callNote |-> "note"]
\* the subscriber written after the documented prevention pattern:
\* ({ current, previous }) => { if (current !== previous) fsm.transition("next") }
FollowEvent == "next"
Follows(id) == id = 1

\* a chain of targets, the last of them looping to itself
LineConfig ==
    [initial |-> "P",
     factory |-> FALSE,
     context |-> Context(0, Undefined, 0),
     states |->
       [P |-> StateCfg(TRUE, Undefined, Undefined,
                 [next |-> DefString("Q")]),
        Q |-> StateCfg(TRUE, "inc", Undefined,
                 [next |-> DefString("R"),
                  back |-> DefString("P")]),
        R |-> StateCfg(TRUE, Undefined, Undefined,
                 [next |-> DefString("R"),
                  back |-> DefString("P"),
                  note |-> DefObject(Edge(Undefined, Undefined, "inc"))])]]

\* two states that lead to each other on the same event
PingPongConfig ==
    [initial |-> "PING",
     factory |-> FALSE,
     context |-> Context(0, Undefined, 0),
     states |->
       [PING |-> StateCfg(TRUE, Undefined, Undefined,
                    [next |-> DefString("PONG"),
                     stay |-> DefString("PING")]),
        PONG |-> StateCfg(TRUE, Undefined, Undefined,
                    [next |-> DefString("PING")])]]

\* callbacks that throw and callbacks that call transition(): an action
\* that throws after onExit ran, an onEnter that throws, an action and an
\* onExit that make a nested call, and a target that is no key of `states`
HookConfig ==
    [initial |-> "S",
     factory |-> FALSE,
     context |-> Context(0, Undefined, 0),
     states |->
       [S |-> StateCfg(TRUE, Undefined, "inc",
                 [boom |-> DefObject(Edge("T", Undefined, Thrower)),
                  go   |-> DefObject(Edge("T", Undefined, "callHop")),
                  wave |-> DefObject(Edge("T", Undefined, "callNote")),
                  hop  |-> DefString("H"),
                  trap |-> DefString("W"),
                  note |-> DefObject(Edge(Undefined, Undefined, "inc"))]),
        T |-> StateCfg(TRUE, "inc", Undefined,
                 [back |-> DefString("S"),
                  lost |-> DefString("GHOST")]),
        H |-> StateCfg(TRUE, Undefined, "callNote",
                 [back |-> DefString("S"),
                  note |-> DefObject(Edge(Undefined, Undefined, "inc"))]),
        W |-> StateCfg(TRUE, Thrower, Undefined,
                 [back |-> DefString("S")])]]

NestedConfigs == {LineConfig, PingPongConfig, HookConfig}

\* one entry of the trace of a call at the given depth
At(step, owner, idx, result, cur, prev, ctx, level) ==
    [step |-> step, owner |-> owner, idx |-> idx, result |-> result,
     current |-> cur, previous |-> prev, context |-> ctx, level |-> level]

\* the guard entries of a resolution, at the depth of its call
Levelled(trace, level) ==
    [i \in 1..Len(trace) |->
        IF "level" \in DOMAIN trace[i] THEN trace[i]
        ELSE At(trace[i].step, trace[i].owner, trace[i].idx, trace[i].result,
                trace[i].current, trace[i].previous, trace[i].context, level)]

\* the call ends: it returns or throws
Ended(call, event, level) ==
    [call EXCEPT !.m.trace =
        Append(@, At("end", event, 0, call.kind = "return", call.m.state,
                     call.m.previous, call.m.context, level))]

\* the element of a set of one: an intermediate result, evaluated once and
\* named by the variable that ranges over the set
The(S) == CHOOSE x \in S : TRUE

RECURSIVE TransitionReentrant(_, _, _, _, _, _, _)
RECURSIVE InvokeReentrant(_, _, _, _, _, _, _, _)
RECURSIVE Deliver(_, _, _, _, _, _)
RECURSIVE DeliverUnguarded(_, _, _, _, _, _)
RECURSIVE DeliverAll(_, _, _, _, _, _)

\* a user callback invoked by a call at depth level: it throws, calls
\* transition() itself (the nested call's outcome is the callback's: what it
\* returns is the state it leaves, what it throws propagates), or writes to
\* the live context
InvokeReentrant(m, cfg, ss, step, owner, kind, payload, level) ==
    LET m1 == [m EXCEPT !.trace =
                  Append(@, At(step, owner, 0, FALSE, m.state, m.previous,
                               m.context, level))]
    IN IF kind = Thrower
       THEN Throws(m1, "UserError")
       ELSE IF kind \in DOMAIN Reentrant
       THEN TransitionReentrant(m1, cfg, ss, Reentrant[kind], Undefined, TRUE,
                                level + 1).call
       ELSE Returns([m1 EXCEPT !.context = RunCallback(kind, @, payload)])

\* (variant: the subscriber calls transition on every notification)
DeliverUnguarded(m, cfg, ss, id, data, level) ==
    LET m1 == [m EXCEPT !.trace =
                  Append(@, At("notify", "subscriber", id, FALSE, data.current,
                               data.previous, m.context, level))]
    IN IF Follows(id)
       THEN TransitionReentrant(m1, cfg, ss, FollowEvent, Undefined, TRUE,
                                level + 1).call
       ELSE Returns(m1)

\* one subscriber called with the published data
Deliver(m, cfg, ss, id, data, level) ==
    LET m1 == [m EXCEPT !.trace =
                  Append(@, At("notify", "subscriber", id, FALSE, data.current,
                               data.previous, m.context, level))]
    IN IF Follows(id) /\ data.current # data.previous
       THEN TransitionReentrant(m1, cfg, ss, FollowEvent, Undefined, TRUE,
                                level + 1).call
       ELSE Returns(m1)

\* publish: the subscribers from the i-th on are called in order with the
\* same data; an exception ends the loop
DeliverAll(m, cfg, ss, i, data, level) ==
    IF i > Len(ss) THEN Returns(m)
    ELSE The({IF c.kind = "throw" THEN c
              ELSE DeliverAll(c.m, cfg, ss, i + 1, data, level) :
                c \in {Deliver(m, cfg, ss, ss[i], data, level)}})

\* #notify: #getNotifyData() is evaluated once, then published
NotifyReentrant(m, cfg, ss, level) ==
    LET data == [current |-> m.state, previous |-> m.previous]
        m1   == [m EXCEPT !.trace =
                    Append(@, At("publish", "engine", 0, FALSE, data.current,
                                 data.previous, m.context, level))]
    IN DeliverAll(m1, cfg, ss, 1, data, level)

\* (variant: the internal branch saves the state as previous)
InternalReentrantSavesPrevious(m, cfg, ss, edge, payload, level) ==
    LET Notified(c1) ==
            IF c1.kind = "throw" THEN c1
            ELSE NotifyReentrant([c1.m EXCEPT !.previous = c1.m.state], cfg, ss, level)
    IN The({Notified(c1) :
              c1 \in {IF IsFunction(edge.action)
                      THEN InvokeReentrant(m, cfg, ss, "action", m.state,
                                           edge.action, payload, level)
                      ELSE Returns(m)}})

\* the internal branch of transition(): the action, then the notification
InternalReentrant(m, cfg, ss, edge, payload, level) ==
    LET Notified(c1) ==
            IF c1.kind = "throw" THEN c1
            ELSE NotifyReentrant(c1.m, cfg, ss, level)
    IN The({Notified(c1) :
              c1 \in {IF IsFunction(edge.action)
                      THEN InvokeReentrant(m, cfg, ss, "action", m.state,
                                           edge.action, payload, level)
                      ELSE Returns(m)}})

\* (variant: the state is updated before the action runs)
ExternalReentrantSetFirst(m, cfg, ss, edge, payload, level) ==
    LET sc  == StateConfigOf(cfg, m.state)
        nsc == StateConfigOf(cfg, edge.target)
        Entered(c3) ==
            IF c3.kind = "throw" THEN c3
            ELSE IF nsc.missing THEN Throws(c3.m, "TypeError")
            ELSE IF IsFunction(nsc.onEnter)
            THEN InvokeReentrant(c3.m, cfg, ss, "onEnter", edge.target,
                                 nsc.onEnter, payload, level)
            ELSE Returns(c3.m)
        Acted(m2t) ==
            The({Entered(c3) :
                   c3 \in {IF IsFunction(edge.action)
                           THEN InvokeReentrant(m2t, cfg, ss, "action", m.state,
                                                edge.action, payload, level)
                           ELSE Returns(m2t)}})
        Updated(c1) ==
            IF c1.kind = "throw" THEN c1
            ELSE The({Acted(m2t) :
                        m2t \in {[c1.m EXCEPT
                                    !.previous = c1.m.state,
                                    !.state = edge.target,
                                    !.trace = Append(@, At("set", m.state, 0, FALSE,
                                                           edge.target, c1.m.state,
                                                           c1.m.context, level))]}})
        Exited ==
            IF IsFunction(sc.onExit)
            THEN InvokeReentrant(m, cfg, ss, "onExit", m.state, sc.onExit,
                                 payload, level)
            ELSE Returns(m)
    IN The({IF c4.kind = "throw" THEN c4 ELSE NotifyReentrant(c4.m, cfg, ss, level) :
              c4 \in {The({Updated(c1) : c1 \in {Exited}})}})

\* the external branch of transition(); the steps are defined last first
ExternalReentrant(m, cfg, ss, edge, payload, level) ==
    LET sc  == StateConfigOf(cfg, m.state)
        nsc == StateConfigOf(cfg, edge.target)
        \* 4. enter new state side-effect
        Entered(m3t) ==
            IF nsc.missing THEN Throws(m3t, "TypeError")
            ELSE IF IsFunction(nsc.onEnter)
            THEN InvokeReentrant(m3t, cfg, ss, "onEnter", edge.target,
                                 nsc.onEnter, payload, level)
            ELSE Returns(m3t)
        \* 3. save previous and set new state: #state is read here
        Updated(c2) ==
            IF c2.kind = "throw" THEN c2
            ELSE The({Entered(m3t) :
                        m3t \in {[c2.m EXCEPT
                                    !.previous = c2.m.state,
                                    !.state = edge.target,
                                    !.trace = Append(@, At("set", m.state, 0, FALSE,
                                                           edge.target, c2.m.state,
                                                           c2.m.context, level))]}})
        \* 2. execute transition action
        Acted(c1) ==
            IF c1.kind = "throw" THEN c1
            ELSE The({Updated(c2) :
                        c2 \in {IF IsFunction(edge.action)
                                THEN InvokeReentrant(c1.m, cfg, ss, "action", m.state,
                                                     edge.action, payload, level)
                                ELSE c1}})
        \* 1. exit current state side-effect
        Exited ==
            IF IsFunction(sc.onExit)
            THEN InvokeReentrant(m, cfg, ss, "onExit", m.state, sc.onExit,
                                 payload, level)
            ELSE Returns(m)
    \* 5. notify listeners
    IN The({IF c4.kind = "throw" THEN c4 ELSE NotifyReentrant(c4.m, cfg, ss, level) :
              c4 \in {The({Acted(c1) : c1 \in {Exited}})}})

\* transition(event, payload, assert) as the level-th call on the stack;
\* a call the stack has no room for throws a RangeError
TransitionReentrant(m, cfg, ss, event, payload, assert, level) ==
    LET sc   == StateConfigOf(cfg, m.state)
        def  == LookupDef(sc.on, event)
        none == [def |-> NoDef, found |-> FALSE, edge |-> NoEdge, index |-> 0]
        res  == ResolveTransition(m, def, payload)
        rm   == [res.m EXCEPT !.trace = Levelled(@, level)]
    IN IF level > MaxDepth
       THEN [call |-> Ended(Throws(m, "RangeError"), event, level)] @@ none
       ELSE IF NoTransitionsDefined(sc)
       THEN [call |-> Ended(Throws(m, "NoTransitionsDefined"), event, level)] @@ none
       ELSE IF Falsy(def)
       THEN [call |-> Ended(Refuse(m, assert, "InvalidTransition"), event, level)]
                @@ none
       ELSE IF ~res.found
       THEN [call |-> Ended(Refuse(rm, assert, "NoValidTransition"), event, level),
             def |-> def, found |-> FALSE, edge |-> NoEdge, index |-> 0]
       ELSE [call |-> The({Ended(c, event, level) :
                             c \in {IF ~IsFunction(res.edge.target)
                                    THEN InternalReentrant(rm, cfg, ss, res.edge,
                                                           payload, level)
                                    ELSE ExternalReentrant(rm, cfg, ss, res.edge,
                                                           payload, level)}}),
             def |-> def, found |-> TRUE, edge |-> res.edge, index |-> res.index]

\* reset() with subscribers that may call transition()
ResetReentrant(m, cfg, ss) ==
    The({IF c.kind = "throw" THEN c ELSE [Returns(c.m) EXCEPT !.value = This] :
           c \in {NotifyReentrant([m EXCEPT !.state = cfg.initial, !.previous = Null,
                                     !.context = InitContext(ConfigSeenBy(cfg, m.context))],
                                  cfg, ss, 0)}})

\* subscribe(cb): register, then call cb with the current data
SubscribeReentrant(m, cfg, ss, id) ==
    Deliver(m, cfg, ss, id, [current |-> m.state, previous |-> m.previous], 0)

InitNested ==
    /\ config \in NestedConfigs
    /\ state = config.initial
    /\ previous = Null
    /\ context = InitContext(config)
    /\ subs = <<>>
    /\ last = [Constructed(config) EXCEPT !.pre.subs = <<>>]
    /\ compose = NotComposed
    /\ diagram = NoDiagram
    /\ twin = NoTwin

DoTransitionNested ==
    \E event \in Events(config, state), assert \in BOOLEAN :
        /\ context.attempts < MaxAttempts
        /\ \E r \in {TransitionReentrant(Machine, config, subs, event, Undefined,
                                          assert, 1)} :
              /\ Commit(r.call.m)
              /\ last' = Record("transition", event, Undefined, assert, r, FALSE)
        /\ UNCHANGED subs

DoResetNested ==
    /\ \E r \in {Plain(ResetReentrant(Machine, config, subs))} :
          /\ Commit(r.call.m)
          /\ last' = Record("reset", Undefined, Undefined, TRUE, r, FALSE)
    /\ UNCHANGED subs

DoSubscribeNested ==
    \E id \in SubIds :
        /\ context.attempts < MaxAttempts
        /\ \A i \in 1..Len(subs) : subs[i] # id
        /\ subs' = Append(subs, id)
        /\ \E r \in {[Plain(SubscribeReentrant(Machine, config, Append(subs, id), id))
                          EXCEPT !.index = id]} :
              /\ Commit(r.call.m)
              /\ last' = Record("subscribe", Undefined, Undefined, TRUE, r, FALSE)

NextNested ==
    \/ DoTransitionNested
    \/ DoResetNested
    \/ DoSubscribeNested
    \/ DoUnsubscribe

SpecNested == InitNested /\ [][NextNested]_vars

(***************************************************************************)
(* Two instances constructed from one config object.  The first is held in *)
(* state, previous and context, the second in twin; twin.actor is the      *)
(* instance the last call was made on, twin.before the two contexts as     *)
(* that call found them.                                                   *)
(***************************************************************************)
TwinConfigs == {RetryConfig, CounterConfig(FALSE), CounterConfig(TRUE)}

\* the who-th instance as a call finds it
EngineOf(who) ==
    IF who = 1 THEN Machine
    ELSE [state |-> twin.state, previous |-> twin.previous,
          context |-> twin.context, trace |-> <<>>]

\* (variant: a static context value is handed to the instance as it is)
SeenByTwinAliased(cfg, own, written) ==
    IF SharesNested(cfg) THEN written ELSE own

\* the context `own` of an instance after another instance of the same
\* config left its context as `written`: each instance holds its own
\* shallow copy of a static value, so the top-level fields are its own and
\* the nested data is the one object every copy refers to; a factory's
\* output is referred to by nothing else
SeenByTwin(cfg, own, written) ==
    IF SharesNested(cfg) /\ "nested" \in DOMAIN own /\ "nested" \in DOMAIN written
    THEN [own EXCEPT !.nested = written.nested]
    ELSE own

\* new FSM(config), twice
InitTwin ==
    /\ config \in TwinConfigs
    /\ state = config.initial
    /\ previous = Null
    /\ context = InitContext(config)
    /\ subs = <<>>
    /\ last = Constructed(config)
    /\ compose = NotComposed
    /\ diagram = NoDiagram
    /\ twin = [state |-> config.initial, previous |-> Null,
               context |-> InitContext(config), actor |-> 0,
               before |-> <<InitContext(config), InitContext(config)>>]

\* the call on the who-th instance left it as m; the other instance sees
\* what it shares with m's context
Settle(who, m) ==
    LET idle == SeenByTwin(config, EngineOf(3 - who).context, m.context)
        mine == [state |-> m.state, previous |-> m.previous, context |-> m.context]
        held == [state |-> twin.state, previous |-> twin.previous, context |-> idle]
        both == [actor |-> who, before |-> <<context, twin.context>>]
    IN /\ config' = ConfigSeenBy(config, m.context)
       /\ IF who = 1
          THEN /\ state' = m.state
               /\ previous' = m.previous
               /\ context' = m.context
               /\ twin' = held @@ both
          ELSE /\ UNCHANGED <<state, previous>>
               /\ context' = idle
               /\ twin' = mine @@ both
       /\ UNCHANGED <<subs, compose, diagram>>

DoTransitionTwin ==
    \E who \in {1, 2}, payload \in Payloads :
        \E event \in Events(config, EngineOf(who).state) :
            /\ EngineOf(who).context.attempts < MaxAttempts
            /\ EngineOf(who).context.nested < MaxWrites
            /\ LET r == Transition(EngineOf(who), config, <<>>, event, payload, FALSE)
               IN /\ Settle(who, r.call.m)
                  /\ last' = [Record("transition", event, payload, FALSE, r, FALSE)
                                 EXCEPT !.pre.state = EngineOf(who).state,
                                        !.pre.previous = EngineOf(who).previous,
                                        !.pre.context = EngineOf(who).context]

DoResetTwin ==
    \E who \in {1, 2} :
        LET r == Plain(Reset(EngineOf(who), config, <<>>))
        IN /\ Settle(who, r.call.m)
           /\ last' = [Record("reset", Undefined, Undefined, TRUE, r, FALSE)
                          EXCEPT !.pre.state = EngineOf(who).state,
                                 !.pre.previous = EngineOf(who).previous,
                                 !.pre.context = EngineOf(who).context]

NextTwin ==
    \/ DoTransitionTwin
    \/ DoResetTwin

SpecTwin == InitTwin /\ [][NextTwin]_vars

(***************************************************************************)
(* Vocabulary of the properties: the last call, as recorded.               *)
(***************************************************************************)
LastTrace == last.trace
LastSteps(steps) == {i \in 1..Len(LastTrace) : LastTrace[i].step \in steps}
EffectSteps == {"onExit", "action", "set", "onEnter", "notify"}

\* the `on` mapping of the state the last call started in
PreCfg == StateConfigOf(config, last.pre.state)
PreHasOn == ~PreCfg.missing /\ PreCfg.hasOn
PreOn == PreCfg.on

\* the current state's `on` has neither the event nor the wildcard
NoEntryFor(event) == event \notin DOMAIN PreOn /\ Wildcard \notin DOMAIN PreOn
\* the definition stored for the event: the literal one, else the wildcard one
EntryFor(event) == IF event \in DOMAIN PreOn THEN PreOn[event] ELSE PreOn[Wildcard]
\* the i-th guard of the last call's definition was called and returned b
GuardReturned(i, b) ==
    \E k \in LastSteps({"guard"}) : LastTrace[k].idx = i /\ LastTrace[k].result = b
\* every entry of the definition has a guard, and every guard returned false
EveryGuardRejected(def) ==
    \A i \in 1..Len(def.edges) :
        IsFunction(def.edges[i].guard) /\ GuardReturned(i, FALSE)
\* the last call was a transition() whose resolution failed
ResolutionFailed ==
    /\ last.op = "transition"
    /\ PreHasOn
    /\ \/ NoEntryFor(last.event)
       \/ ~NoEntryFor(last.event) /\ EveryGuardRejected(EntryFor(last.event))
\* a guard that writes to the object it is handed was called in the last call
WritingGuardCalled ==
    \E k \in LastSteps({"guard"}) :
        GuardWrites(last.def.edges[LastTrace[k].idx].guard, LastTrace[k].context)
            # LastTrace[k].context
Unchanged ==
    /\ state = last.pre.state
    /\ previous = last.pre.previous
    /\ context = last.pre.context

(***************************************************************************)
(* C1: when resolution fails in a state that has an `on` mapping (neither  *)
(* the event nor "*" is a key, or every guard of the found definition      *)
(* rejects), transition throws in assert mode and returns the unchanged    *)
(* current state in non-assert mode.                                       *)
(***************************************************************************)
C1_RefusalOutcome ==
    ResolutionFailed =>
        /\ last.assert => last.kind = "throw"
        /\ ~last.assert => (last.kind = "return" /\ last.value = last.pre.state)

C1_Witness ==
    /\ ResolutionFailed
    /\ ~NoEntryFor(last.event)
    /\ last.assert
    /\ last.kind = "throw"

(***************************************************************************)
(* C2: a refused transition has no side effects: current, previous and     *)
(* context are unchanged, no onExit/onEnter/action ran, no subscriber was  *)
(* notified.                                                               *)
(***************************************************************************)
C2_RefusalHasNoEffect ==
    ResolutionFailed => (Unchanged /\ LastSteps(EffectSteps) = {})

C2_Witness ==
    /\ ResolutionFailed
    /\ WritingGuardCalled
    /\ Len(subs) > 0
    /\ IsFunction(PreCfg.onExit)

(***************************************************************************)
(* C3: in every reachable state, for every event and payload,              *)
(* canTransition returns true exactly when transition in assert mode,      *)
(* called in that state, would not throw.                                  *)
(***************************************************************************)
C3_CanTransitionIffNoThrow ==
    \A event \in Events(config, state), payload \in Payloads :
        CanTransition(Machine, config, event, payload).can
            <=> (Transition(Machine, config, subs, event, payload, TRUE).call.kind # "throw")

(***************************************************************************)
(* C4: canTransition is a pure query: whatever the guards do to the object *)
(* they are handed, current, previous and the live context are unchanged,  *)
(* no onExit/onEnter/action ran and no subscriber was notified.            *)
(***************************************************************************)
C4_CanTransitionIsPure ==
    last.op = "canTransition" => (Unchanged /\ LastSteps(EffectSteps) = {})

C4_Witness ==
    /\ last.op = "canTransition"
    /\ last.can
    /\ WritingGuardCalled
    /\ IsFunction(last.edge.target)
    /\ Len(subs) > 0

(***************************************************************************)
(* Vocabulary for the order of the steps of one call.                      *)
(***************************************************************************)
\* the entries of the last call that are not guard calls, in order
Effects == SelectSeq(LastTrace, LAMBDA e : e.step \in EffectSteps)
StepsOf(entries) == [i \in 1..Len(entries) |-> entries[i].step]
Rank(step) ==
    CASE step = "guard" -> 0 [] step = "onExit" -> 1 [] step = "action" -> 2
      [] step = "set" -> 3 [] step = "onEnter" -> 4 [] OTHER -> 5

\* the last call was a transition() that resolved to an edge
Resolved == last.op = "transition" /\ last.found
IsExternal == Resolved /\ IsFunction(last.edge.target)
IsInternal == Resolved /\ ~IsFunction(last.edge.target)
Old == last.pre.state
Target == last.edge.target
TargetCfg == StateConfigOf(config, Target)

Opt(present, step) == IF present THEN <<step>> ELSE <<>>
Notifications == [i \in 1..Len(last.pre.subs) |-> "notify"]
\* the steps of a complete external transition
ExternalSteps ==
    Opt(IsFunction(PreCfg.onExit), "onExit") \o Opt(IsFunction(last.edge.action), "action")
        \o <<"set">> \o Opt(IsFunction(TargetCfg.onEnter), "onEnter") \o Notifications

\* the j-th notification of the last call went to the j-th subscriber
NotifiedInOrder ==
    LET ns == SelectSeq(LastTrace, LAMBDA e : e.step = "notify")
    IN \A j \in 1..Len(ns) : j <= Len(last.pre.subs) /\ ns[j].idx = last.pre.subs[j]

(***************************************************************************)
(* C5: an external transition runs onExit of the old state, the edge's     *)
(* action, the state update, onEnter of the target and the notification in *)
(* exactly this order; onExit and the action run while current is still    *)
(* the old state, onEnter and the subscribers observe current = target and *)
(* previous = old.                                                         *)
(***************************************************************************)
C5_ExternalOrder ==
    IsExternal =>
        /\ \A i, j \in 1..Len(LastTrace) :
              i < j => /\ Rank(LastTrace[i].step) <= Rank(LastTrace[j].step)
                       /\ (LastTrace[j].step \notin {"guard", "notify"}
                             => Rank(LastTrace[i].step) < Rank(LastTrace[j].step))
        /\ \A i \in 1..Len(LastTrace) :
              LET e == LastTrace[i] IN
              /\ e.step = "onExit" => e.owner = Old
              /\ e.step = "onEnter" => e.owner = Target
              /\ e.step \in {"onExit", "action"}
                    => (e.current = Old /\ e.previous = last.pre.previous)
              /\ e.step \in {"set", "onEnter", "notify"}
                    => (e.current = Target /\ e.previous = Old)
        /\ last.kind = "return" =>
              /\ StepsOf(Effects) = ExternalSteps
              /\ NotifiedInOrder
              /\ state = Target /\ previous = Old /\ last.value = Target

C5_Witness ==
    /\ IsExternal
    /\ last.kind = "return"
    /\ Target # Old
    /\ Len(subs) = MaxSubs
    /\ IsFunction(PreCfg.onExit)
    /\ IsFunction(last.edge.action)
    /\ IsFunction(TargetCfg.onEnter)

(***************************************************************************)
(* C6: an internal transition runs the edge's action if present, then      *)
(* notifies every subscriber exactly once; current and previous do not     *)
(* change and neither onExit nor onEnter is invoked.                       *)
(***************************************************************************)
C6_InternalTransition ==
    IsInternal =>
        /\ StepsOf(Effects) = Opt(IsFunction(last.edge.action), "action") \o Notifications
        /\ NotifiedInOrder
        /\ last.kind = "return" /\ last.value = Old
        /\ state = Old
        /\ previous = last.pre.previous
        /\ context = RunCallback(last.edge.action, last.pre.context, last.payload)

C6_Witness ==
    /\ IsInternal
    /\ IsFunction(last.edge.action)
    /\ context # last.pre.context
    /\ IsFunction(PreCfg.onExit)
    /\ IsFunction(PreCfg.onEnter)
    /\ Len(subs) > 0

(***************************************************************************)
(* C7: a self-loop (an external transition whose target is the current     *)
(* state s) runs onExit(s), the action, onEnter(s) and one notification,   *)
(* in that order, and afterwards previous = current = s.                   *)
(***************************************************************************)
C7_SelfLoop ==
    (IsExternal /\ Target = Old) =>
        /\ StepsOf(Effects) =
              Opt(IsFunction(PreCfg.onExit), "onExit")
                  \o Opt(IsFunction(last.edge.action), "action") \o <<"set">>
                  \o Opt(IsFunction(PreCfg.onEnter), "onEnter") \o Notifications
        /\ \A i \in 1..Len(Effects) :
              Effects[i].step \in {"onExit", "onEnter"} => Effects[i].owner = Old
        /\ state = Old
        /\ previous = Old

C7_Witness ==
    /\ IsExternal
    /\ Target = Old
    /\ IsFunction(PreCfg.onExit)
    /\ IsFunction(PreCfg.onEnter)
    /\ IsFunction(last.edge.action)
    /\ last.pre.previous # Old
    /\ Len(subs) > 0

(***************************************************************************)
(* C8: in a sequence-form definition the selected edge is the first entry, *)
(* in declared order, whose guard is absent or returns true; an entry      *)
(* without a guard matches unconditionally; if no entry matches,           *)
(* resolution fails.                                                       *)
(***************************************************************************)
\* entry i of the definition matches: it has no guard, or its guard returned true
Matches(def, i) == ~IsFunction(def.edges[i].guard) \/ GuardReturned(i, TRUE)
GuardCalls == SelectSeq(LastTrace, LAMBDA e : e.step = "guard")

C8_FirstMatchWins ==
    (last.op \in {"transition", "canTransition"} /\ last.def.form = "array") =>
        LET def == last.def
            matching == {i \in 1..Len(def.edges) : Matches(def, i)}
        IN /\ \A k \in 1..Len(GuardCalls) : k <= Len(def.edges) /\ GuardCalls[k].idx <= Len(def.edges)
           /\ \A k \in 1..(Len(GuardCalls) - 1) : GuardCalls[k].idx < GuardCalls[k + 1].idx
           /\ matching = {} => /\ ~last.found
                               /\ last.op = "canTransition" => ~last.can
                               /\ last.op = "transition" => Unchanged
           /\ matching # {} =>
                LET first == CHOOSE i \in matching : \A j \in matching : i <= j
                IN /\ last.found
                   /\ last.index = first
                   /\ last.edge = def.edges[first]
                   /\ \A j \in 1..(first - 1) : GuardReturned(j, FALSE)
                   /\ \A k \in 1..Len(GuardCalls) : GuardCalls[k].idx <= first
                   /\ last.op = "canTransition" => last.can
                   /\ (last.op = "transition" /\ last.kind = "return")
                        => last.value = (IF IsFunction(def.edges[first].target)
                                         THEN def.edges[first].target ELSE Old)

C8_Witness ==
    /\ last.op = "transition"
    /\ last.def.form = "array"
    /\ last.found
    /\ last.index = 2
    /\ ~IsFunction(last.edge.guard)
    /\ Len(last.def.edges) = 3
    /\ GuardReturned(1, FALSE)

(***************************************************************************)
(* C9: the definition used is the one stored under the literal event name  *)
(* when the current state's `on` has one, the "*" definition only when it  *)
(* has none, and resolution fails when neither exists; identically for     *)
(* transition and canTransition.                                           *)
(***************************************************************************)
C9_LiteralBeforeWildcard ==
    (last.op \in {"transition", "canTransition"} /\ PreHasOn) =>
        /\ last.event \in DOMAIN PreOn => last.def = PreOn[last.event]
        /\ (last.event \notin DOMAIN PreOn /\ Wildcard \in DOMAIN PreOn)
              => last.def = PreOn[Wildcard]
        /\ NoEntryFor(last.event) =>
              /\ Falsy(last.def) /\ ~last.found /\ Unchanged
              /\ last.op = "canTransition" => ~last.can
              /\ last.op = "transition" => last.kind = (IF last.assert THEN "throw" ELSE "return")
        /\ (last.def.form = "string" /\ last.op = "transition" /\ last.kind = "return")
              => last.value = last.def.edges[1].target
        /\ (last.def.form = "string" /\ last.op = "canTransition") => last.can

C9_Witness ==
    /\ last.op = "transition"
    /\ PreHasOn
    /\ last.event \in DOMAIN PreOn
    /\ last.event # Wildcard
    /\ Wildcard \in DOMAIN PreOn
    /\ PreOn[Wildcard] # PreOn[last.event]
    /\ last.found

(***************************************************************************)
(* C10: during transition, whatever a guard does to the object it is       *)
(* handed never shows in the live context: the context the action, the     *)
(* hooks, the subscribers and the caller see holds only the changes made   *)
(* by actions and hooks.                                                   *)
(***************************************************************************)
\* the callback an entry of the trace stands for
CallbackOf(e) ==
    CASE e.step = "onExit"  -> PreCfg.onExit
      [] e.step = "action"  -> last.edge.action
      [] e.step = "onEnter" -> TargetCfg.onEnter
      [] OTHER              -> Undefined
\* the context after the step of entry e, given what e observed
After(e) == RunCallback(CallbackOf(e), e.context, last.payload)

C10_GuardWritesInvisible ==
    last.op = "transition" =>
        /\ Len(Effects) = 0 => context = last.pre.context
        /\ Len(Effects) > 0 =>
              /\ Effects[1].context = last.pre.context
              /\ \A k \in 1..(Len(Effects) - 1) : Effects[k + 1].context = After(Effects[k])
              /\ context = After(Effects[Len(Effects)])

C10_Witness ==
    /\ last.op = "transition"
    /\ WritingGuardCalled
    /\ IsExternal
    /\ last.kind = "return"
    /\ IsFunction(PreCfg.onExit)
    /\ IsFunction(TargetCfg.onEnter)
    /\ Len(subs) > 0

(***************************************************************************)
(* reset                                                                   *)
(***************************************************************************)
NotifyEntries == SelectSeq(LastTrace, LAMBDA e : e.step = "notify")

\* C11: reset() sets the current state to config.initial and the previous
\* state to null from any state, calls every subscriber exactly once, in
\* order, with { current: initial, previous: null }, and returns the engine.
C11_ResetRestoresState ==
    last.op = "reset" =>
        /\ state = config.initial
        /\ previous = Null
        /\ LastTrace = NotifyEntries
        /\ Len(NotifyEntries) = Len(last.pre.subs)
        /\ \A j \in 1..Len(NotifyEntries) :
              /\ NotifyEntries[j].idx = last.pre.subs[j]
              /\ NotifyEntries[j].current = config.initial
              /\ NotifyEntries[j].previous = Null
        /\ last.kind = "return"
        /\ last.value = This

C11_Witness ==
    /\ last.op = "reset"
    /\ last.pre.state # config.initial
    /\ last.pre.previous \notin {Null, config.initial}
    /\ Len(last.pre.subs) = MaxSubs
    /\ last.value = This

\* the configuration as it was handed to the constructor
Original == CHOOSE c \in Configs : [c EXCEPT !.context = config.context] = config
\* the value the configured context denoted at construction
ConstructionContext == Original.context

\* C12 (as stated): after reset() the context equals the value the
\* configured context denoted at construction, for a static value with
\* nested data as well as for a factory.
C12_ResetRestoresContext ==
    last.op = "reset" => context = ConstructionContext

\* C12 (amended): after reset() the context equals the construction value
\* when the context is a factory; when it is a static value the top-level
\* fields equal the construction value and the nested data keeps whatever
\* was written to it in place before the reset.  Subscribers are handed
\* that context.
C12_ResetContextShallow ==
    last.op = "reset" =>
        /\ config.factory => context = ConstructionContext
        /\ ~config.factory =>
              context = [ConstructionContext EXCEPT !.nested = last.pre.context.nested]
        /\ \A j \in 1..Len(NotifyEntries) : NotifyEntries[j].context = context

C12_Witness ==
    /\ last.op = "reset"
    /\ ~config.factory
    /\ last.pre.context.attempts > 0
    /\ last.pre.context.nested > 0
    /\ context.attempts = 0
    /\ context.nested > 0
    /\ Len(last.pre.subs) > 0

(***************************************************************************)
(* a state without transitions                                             *)
(***************************************************************************)
\* C13: when the current state has no entry in `states` or its entry has no
\* `on` (in particular when `initial` is no key of `states`), construction
\* succeeds and leaves the engine in `initial`, and transition throws for
\* every event in both assert modes, with no callback run, no subscriber
\* called and state, previous and context unchanged.
C13_NoTransitionsThrows ==
    /\ last.op = "new" =>
          last.kind = "return" /\ state = config.initial /\ previous = Null
    /\ (last.op = "transition" /\ ~PreHasOn) =>
          /\ last.kind = "throw"
          /\ last.error = "NoTransitionsDefined"
          /\ LastTrace = <<>>
          /\ Unchanged

C13_Witness ==
    /\ last.op = "transition"
    /\ ~last.assert
    /\ PreCfg.missing
    /\ last.pre.state = config.initial
    /\ last.pre.previous = Null
    /\ last.kind = "throw"

(***************************************************************************)
(* subscribers                                                             *)
(***************************************************************************)
\* the call changed the engine's state or context for its subscribers
Publishes ==
    \/ last.op = "reset"
    \/ last.op = "transition" /\ last.kind = "return" /\ Resolved

\* C14: subscribe(cb) calls cb exactly once, synchronously, with the current
\* { current, previous, context }; afterwards cb is called exactly once for
\* every successful transition, external or internal, and every reset;
\* unsubscribing removes cb only, so it is never called again and the other
\* subscribers are called as before.
C14_Subscription ==
    /\ last.op = "subscribe" =>
          /\ Len(LastTrace) = 1
          /\ LastTrace[1].step = "notify"
          /\ LastTrace[1].idx = last.index
          /\ LastTrace[1].current = state
          /\ LastTrace[1].previous = previous
          /\ LastTrace[1].context = context
          /\ subs = Append(last.pre.subs, last.index)
          /\ Unchanged
    /\ last.op = "unsubscribe" =>
          /\ LastTrace = <<>>
          /\ subs = SelectSeq(last.pre.subs, LAMBDA x : x # last.index)
          /\ Unchanged
    /\ Publishes =>
          /\ Len(NotifyEntries) = Len(last.pre.subs)
          /\ \A j \in 1..Len(NotifyEntries) :
                /\ NotifyEntries[j].idx = last.pre.subs[j]
                /\ NotifyEntries[j].current = state
                /\ NotifyEntries[j].previous = previous
                /\ NotifyEntries[j].context = context
    /\ (last.op \in {"transition", "canTransition"} /\ ~Publishes) =>
          NotifyEntries = <<>>
    /\ last.op \in {"transition", "canTransition", "reset"} => subs = last.pre.subs

C14_Witness ==
    /\ last.op = "transition"
    /\ IsInternal
    /\ last.kind = "return"
    /\ Len(last.pre.subs) = MaxSubs
    /\ last.pre.subs[1] > last.pre.subs[2]
    /\ Len(NotifyEntries) = MaxSubs

(***************************************************************************)
(* the retry scenario                                                      *)
(***************************************************************************)
\* what the k-th call of the scenario returns, and `attempts` after it
Expected ==
    <<[value |-> "FETCHING", attempts |-> 1],
      [value |-> "RETRYING", attempts |-> 1],
      [value |-> "FETCHING", attempts |-> 2],
      [value |-> "FAILED",   attempts |-> 2]>>

\* C15: on a fresh engine of the retrying-fetch configuration with
\* maxRetries 2, the events fetch, reject, retry, reject return FETCHING,
\* RETRYING, FETCHING, FAILED with attempts 1, 1, 2, 2, and a further retry
\* from FAILED is refused.
C15_RetryScenario ==
    (last.op = "transition" /\ last.script \in 1..Len(Script)) =>
        /\ last.script \in 1..Len(Expected) =>
              /\ last.kind = "return"
              /\ last.value = Expected[last.script].value
              /\ state = Expected[last.script].value
              /\ context.attempts = Expected[last.script].attempts
        /\ last.script = Len(Script) =>
              /\ state = "FAILED"
              /\ Unchanged
              /\ LastTrace = <<>>
              /\ last.assert => last.kind = "throw"
              /\ ~last.assert => last.kind = "return" /\ last.value = "FAILED"

C15_Witness ==
    /\ last.op = "transition"
    /\ last.script = Len(Script)
    /\ last.kind = "throw"
    /\ state = "FAILED"
    /\ context.attempts = MaxRetries

(***************************************************************************)
(* composition                                                             *)
(***************************************************************************)
Composed == compose.kind \in {"config", "throw"}
\* the fragments left after filtering, and those of them defining `initial`
Valid == SelectSeq(compose.fragments, LAMBDA f : ~f.falsy)
Definers == SelectSeq(Valid, LAMBDA f : f.initial # Undefined)
InitialsDiffer ==
    \E i, j \in 1..Len(Definers) : Definers[i].initial # Definers[j].initial


\* C16 (as stated): composeFsmConfig removes the falsy entries, throws when
\* no fragment remains or no remaining fragment defines `initial`, and in
\* every other case returns a config.
C16_ThrowsOnlyWithoutInitial ==
    Composed =>
        (compose.kind = "throw" <=> (Len(Valid) = 0 \/ Len(Definers) = 0))

\* C16 (amended): composeFsmConfig removes the falsy entries and throws when
\* no fragment remains, when no remaining fragment defines `initial`, and
\* when onConflict is "error" and two remaining fragments define different
\* `initial` values; in every other case it returns a config, from which an
\* engine is constructed in the composed initial state.
C16_ThrowsWithoutInitialOrOnConflict ==
    Composed =>
        /\ Len(Valid) = 0 =>
              compose.kind = "throw" /\ compose.error = "NoFragments"
        /\ (Len(Valid) > 0 /\ Len(Definers) = 0) =>
              compose.kind = "throw" /\ compose.error = "NoInitial"
        /\ (compose.options.onConflict = "error" /\ InitialsDiffer) =>
              compose.kind = "throw" /\ compose.error = "InitialConflict"
        /\ (Len(Definers) > 0 /\ ~(compose.options.onConflict = "error" /\ InitialsDiffer)) =>
              /\ compose.kind = "config"
              /\ config.initial # Undefined
              /\ last.op = "new" => state = config.initial

C16_Witness ==
    /\ compose.kind = "throw"
    /\ compose.error = "InitialConflict"
    /\ Len(Valid) < Len(compose.fragments)
    /\ Len(Definers) = 2

Defines(f, s, e) ==
    s \in DOMAIN f.states /\ f.states[s].hasOn /\ e \in DOMAIN f.states[s].on
\* the fragments defining (s, e), in fragment order
DefinersOf(s, e) == SelectSeq(Valid, LAMBDA f : Defines(f, s, e))
FragmentStates == UNION {DOMAIN Valid[i].states : i \in 1..Len(Valid)}
EventsOf(f) == UNION {DOMAIN f.states[s].on : s \in DOMAIN f.states}
FragmentEvents == UNION {EventsOf(Valid[i]) : i \in 1..Len(Valid)}
\* the composed handler of (s, e)
ComposedDef(s, e) == OnEntry(StateConfigOf(config, s).on, e)
\* every state of a fragment is a composed state, and a composed state has a
\* handler of an event exactly when some fragment defines one
PairsPreserved ==
    /\ DOMAIN config.states = FragmentStates
    /\ \A s \in FragmentStates :
          /\ StateConfigOf(config, s).hasOn
          /\ \A e \in FragmentEvents \cup DOMAIN StateConfigOf(config, s).on :
                Falsy(ComposedDef(s, e)) <=> Len(DefinersOf(s, e)) = 0

\* C18: with transitions "replace" the composed handler of each (state,
\* event) is exactly the handler of the last fragment defining that pair,
\* and every pair some fragment defines is present.
C18_ReplaceLastWins ==
    (compose.kind = "config" /\ compose.options.transitions = "replace") =>
        /\ PairsPreserved
        /\ \A s \in FragmentStates : \A e \in FragmentEvents :
              LET ds == DefinersOf(s, e)
              IN Len(ds) > 0 => ComposedDef(s, e) = ds[Len(ds)].states[s].on[e]

C18_Witness ==
    /\ compose.kind = "config"
    /\ compose.options.transitions = "replace"
    /\ LET ds == DefinersOf("IDLE", "submit")
       IN /\ Len(ds) >= 3
          /\ ds[1].states["IDLE"].on["submit"] # ds[Len(ds)].states["IDLE"].on["submit"]
          /\ ds[2].states["IDLE"].on["submit"] # ds[Len(ds)].states["IDLE"].on["submit"]
          /\ ComposedDef("IDLE", "submit") = ds[Len(ds)].states["IDLE"].on["submit"]

\* the edges of the first i definers of (s, e): each later fragment's edges
\* before the earlier ones', or after them
RECURSIVE LaterFirst(_, _, _, _)
LaterFirst(ds, s, e, i) ==
    IF i = 0 THEN <<>> ELSE ds[i].states[s].on[e].edges \o LaterFirst(ds, s, e, i - 1)
RECURSIVE EarlierFirst(_, _, _, _)
EarlierFirst(ds, s, e, i) ==
    IF i = 0 THEN <<>> ELSE EarlierFirst(ds, s, e, i - 1) \o ds[i].states[s].on[e].edges

Authenticated(ctx) == "authenticated" \in DOMAIN ctx /\ ctx.authenticated
\* the last call sent `submit` to an engine in IDLE whose composed handler
\* comes from the fragments ds, in that order
SubmittedWith(ds) ==
    /\ last.op = "transition"
    /\ last.pre.state = "IDLE"
    /\ last.event = "submit"
    /\ DefinersOf("IDLE", "submit") = ds

\* C19: with transitions "prepend" the composed handler of each (state,
\* event) is the sequence of the defining fragments' edges with each later
\* fragment's edges before every earlier fragment's; with the base handler
\* IDLE.on.submit = PROCESSING and a later fragment's edge to LOGIN_REQUIRED
\* guarded by "not authenticated", submit takes an unauthenticated context to
\* LOGIN_REQUIRED and an authenticated one to PROCESSING.
C19_PrependLaterFirst ==
    (compose.kind = "config" /\ compose.options.transitions = "prepend") =>
        /\ PairsPreserved
        /\ \A s \in FragmentStates : \A e \in FragmentEvents :
              LET ds == DefinersOf(s, e)
              IN Len(ds) > 0 => ComposedDef(s, e).edges = LaterFirst(ds, s, e, Len(ds))
        /\ SubmittedWith(<<Base, AuthGate>>) =>
              /\ last.kind = "return"
              /\ state = IF Authenticated(last.pre.context)
                         THEN "PROCESSING" ELSE "LOGIN_REQUIRED"
              /\ last.value = state
              /\ previous = "IDLE"

C19_Witness ==
    /\ compose.kind = "config"
    /\ compose.options.transitions = "prepend"
    /\ SubmittedWith(<<Base, AuthGate>>)
    /\ Authenticated(last.pre.context)
    /\ GuardReturned(1, FALSE)
    /\ last.index = 2
    /\ state = "PROCESSING"

\* the number of edges the first k definers contribute
RECURSIVE EdgeCount(_, _, _, _)
EdgeCount(ds, s, e, k) ==
    IF k = 0 THEN 0 ELSE EdgeCount(ds, s, e, k - 1) + Len(ds[k].states[s].on[e].edges)

\* C20: with transitions "append" the composed handler of each (state,
\* event) is the sequence of the defining fragments' edges in fragment
\* order, so a transition selects a later fragment's edge only when every
\* edge of the earlier fragments has a guard and that guard rejected.
C20_AppendEarlierFirst ==
    (compose.kind = "config" /\ compose.options.transitions = "append") =>
        /\ PairsPreserved
        /\ \A s \in FragmentStates : \A e \in FragmentEvents :
              LET ds == DefinersOf(s, e)
              IN Len(ds) > 0 => ComposedDef(s, e).edges = EarlierFirst(ds, s, e, Len(ds))
        /\ (last.op = "transition" /\ last.found) =>
              LET s  == last.pre.state
                  e  == last.event
                  ds == DefinersOf(s, e)
              IN \A k \in 1..Len(ds) :
                    last.index > EdgeCount(ds, s, e, k) =>
                        \A j \in 1..EdgeCount(ds, s, e, k) :
                            /\ IsFunction(last.def.edges[j].guard)
                            /\ GuardReturned(j, FALSE)

C20_Witness ==
    /\ compose.kind = "config"
    /\ compose.options.transitions = "append"
    /\ SubmittedWith(<<AuthGate, Fallback>>)
    /\ last.found
    /\ last.kind = "return"
    /\ last.index = 2
    /\ GuardReturned(1, FALSE)
    /\ GuardReturned(2, TRUE)
    /\ state = "PROCESSING"

(***************************************************************************)
(* composed hooks                                                          *)
(***************************************************************************)
\* the hooks `which` that the fragments define for state s, in fragment order
HooksDefined(s, which) ==
    LET ds == SelectSeq(Valid, LAMBDA f : s \in DOMAIN f.states
                                           /\ IsFunction(f.states[s][which]))
    IN [i \in 1..Len(ds) |-> ds[i].states[s][which]]
\* what one invocation of the composed hook has to call
HooksExpected(s, which) ==
    LET hs == HooksDefined(s, which)
    IN IF compose.options.hooks = "compose" \/ hs = <<>> THEN hs ELSE <<hs[Len(hs)]>>
\* the recording hooks called during the last call, in order
CallEntries == SelectSeq(LastTrace, LAMBDA e : e.step = "call")
CalledHooks == [i \in 1..Len(CallEntries) |-> CallEntries[i].owner]

\* C21: for each state and each of onEnter/onExit, with hooks "replace" the
\* composed hook is the hook of the last fragment defining it and only that
\* one runs; with hooks "compose" one invocation of the composed hook calls
\* every defining fragment's hook exactly once, in fragment order.
C21_ComposedHooks ==
    compose.kind = "config" =>
        /\ \A s \in FragmentStates : \A which \in {"onEnter", "onExit"} :
              LET hook == StateConfigOf(config, s)[which]
                  hs   == HooksDefined(s, which)
              IN /\ IsFunction(hook) <=> hs # <<>>
                 /\ IsFunction(hook) => CallsOf(hook) = HooksExpected(s, which)
                 /\ (IsFunction(hook) /\ compose.options.hooks = "replace") =>
                       hook = hs[Len(hs)]
        /\ (IsExternal /\ last.kind = "return") =>
              CalledHooks = HooksExpected(last.pre.state, "onExit")
                                \o HooksExpected(state, "onEnter")

C21_Witness ==
    /\ compose.kind = "config"
    /\ compose.options.hooks = "compose"
    /\ IsExternal
    /\ last.kind = "return"
    /\ Len(HooksDefined(last.pre.state, "onExit")) >= 2
    /\ Len(HooksDefined(state, "onEnter")) >= 2
    /\ HooksDefined(state, "onEnter")[1] # HooksDefined(state, "onEnter")[2]
    /\ Len(CalledHooks) >= 4

(***************************************************************************)
(* composed context                                                        *)
(***************************************************************************)
\* the fragments that define a context, in fragment order
ContextDefiners == SelectSeq(Valid, LAMBDA f : f.context.kind # "none")
ContextKeys ==
    UNION {DOMAIN ContextDefiners[i].context.value : i \in 1..Len(ContextDefiners)}
\* the last fragment whose context has key k
LastWith(k) ==
    LET is == {i \in 1..Len(ContextDefiners) : k \in DOMAIN ContextDefiners[i].context.value}
    IN ContextDefiners[CHOOSE i \in is : \A j \in is : j <= i]
\* the key-wise merge of the fragments' context values as they were written
MergeOfFragments == [k \in ContextKeys |-> LastWith(k).context.value[k]]
Merging == compose.kind = "config" /\ compose.options.context = "merge"
Replacing == compose.kind = "config" /\ compose.options.context = "replace"

\* C22: with context "merge" the context of an engine built from the
\* composed config is the key-wise shallow merge of the fragments' contexts
\* (a factory contributes its output) in fragment order: each key has the
\* value of the last fragment that defines it.
C22_MergedContext ==
    (Merging /\ last.op = "new") =>
        /\ DOMAIN context = ContextKeys
        /\ \A k \in ContextKeys : context[k] = LastWith(k).context.value[k]
        /\ Len(ContextDefiners) > 0 => compose.context.kind = "factory"

C22_Witness ==
    /\ Merging
    /\ last.op = "new"
    /\ Len(ContextDefiners) >= 2
    /\ ContextDefiners[1].context.kind # ContextDefiners[2].context.kind
    /\ LastWith("user") # LastWith("authenticated")
    /\ context.authenticated # ContextDefiners[1].context.value.authenticated

\* C23 (as stated): with context "merge" every reset() yields a context
\* equal to the merge of the fragments' original context values, whatever
\* was done to the engine's previous context, nested data that came from a
\* fragment's static context value included.
C23_ResetYieldsOriginalMerge ==
    (Merging /\ last.op = "reset") => context = MergeOfFragments

\* C23 (amended): with context "merge" every reset() yields a context with
\* the keys of the merge of the fragments' contexts; every top-level value
\* equals the original merge's whatever was written to the engine's
\* previous context, and so does nested data that came from a factory;
\* nested data that came from a fragment's static context value keeps what
\* was written to it in place.
C23_ResetYieldsShallowMerge ==
    (Merging /\ last.op = "reset") =>
        /\ DOMAIN context = ContextKeys
        /\ \A k \in ContextKeys \ {"nested"} : context[k] = MergeOfFragments[k]
        /\ "nested" \in ContextKeys =>
              context.nested = IF LastWith("nested").context.kind = "factory"
                               THEN MergeOfFragments.nested
                               ELSE last.pre.context.nested

C23_Witness ==
    /\ Merging
    /\ last.op = "reset"
    /\ "nested" \in ContextKeys
    /\ LastWith("nested").context.kind = "value"
    /\ last.pre.context.nested > 0
    /\ last.pre.context.authenticated # MergeOfFragments.authenticated
    /\ context.authenticated = MergeOfFragments.authenticated
    /\ context.nested = last.pre.context.nested

\* C24: with context "replace" the composed config's context is exactly
\* the context (value or factory) of the last fragment that defines one,
\* and the engine's context has that context's keys and values only.
C24_ReplacedContext ==
    Replacing =>
        /\ compose.context = IF Len(ContextDefiners) = 0 THEN NoSource
                             ELSE ContextDefiners[Len(ContextDefiners)].context
        /\ last.op = "new" => context = compose.context.value

C24_Witness ==
    /\ Replacing
    /\ last.op = "new"
    /\ Len(ContextDefiners) >= 2
    /\ "user" \in ContextKeys
    /\ "user" \notin DOMAIN context
    /\ compose.context.kind = "value"

\* ---- guards of a sequence ----

\* the guard invocations of the last call, in order
GuardEntries == SelectSeq(LastTrace, LAMBDA e : e.step = "guard")

\* C30 (as stated): in a sequence-form definition every entry's guard is
\* evaluated against a snapshot equal to the engine's context at the time
\* of the call: what an earlier guard wrote to the object it was handed is
\* not seen by a later guard.
C30_EveryGuardSeesCallTimeContext ==
    (last.op \in {"transition", "canTransition"} /\ last.def.form = "array") =>
        \A k \in 1..Len(GuardEntries) : GuardEntries[k].context = last.pre.context

\* ---- the codec ----

\* the text the k-th result of decoding came from; the first result of a
\* chain that started from a config is that config
FromText(k) == diagram.origin = "text" \/ k > 1
SourceText(k) == diagram.texts[IF diagram.origin = "text" THEN k ELSE k - 1]
\* the lines of a text that start with the header
HeadersOf(text) == {i \in 1..Len(text) : text[i].body = "stateDiagram-v2"}
\* some `[*] --> State` line follows a header line
InitialFollows(text) ==
    \E i \in HeadersOf(text) : \E j \in (i + 1)..Len(text) : \E s \in WordNames :
        text[j].body = "[*] --> " \o s

Entries(cfg) ==
    UNION {{[source |-> cfg.states[i].key, event |-> cfg.states[i].value.on[j].key,
             def |-> cfg.states[i].value.on[j].value] :
                j \in 1..Len(cfg.states[i].value.on)} : i \in 1..Len(cfg.states)}
\* every transition of the config is a bare target string
BareTargets(cfg) == \A x \in Entries(cfg) : x.def.form = "string"
\* the names of the config are names a line can carry: states named by
\* words, events that do not end as a marker does
Carried(cfg) ==
    /\ cfg.initial \in WordNames
    /\ \A i \in 1..Len(cfg.states) : cfg.states[i].key \in WordNames
    /\ \A x \in Entries(cfg) :
          /\ x.event \in PlainEvents
          /\ \A k \in 1..Len(x.def.edges) :
                x.def.edges[k].target \in WordNames \cup {Undefined}
\* the chain started from a config given to the engine
Given == diagram.decoded[1].config

EdgesOf(cfg) ==
    UNION {{[source |-> x.source, event |-> x.event, target |-> x.def.edges[k].target,
             guard |-> x.def.edges[k].guard # Undefined,
             action |-> x.def.edges[k].action # Undefined] :
                k \in 1..Len(x.def.edges)} : x \in Entries(cfg)}
\* the graph of a config: its edges without their guards and actions
Graph(cfg) ==
    {[source |-> x.source, event |-> x.event, target |-> x.target] : x \in EdgesOf(cfg)}
SameEdge(x, y) ==
    x.source = y.source /\ x.event = y.event /\ x.target = y.target

\* C27 (as stated): for every text the decoder accepts, decoding, encoding
\* and decoding again gives a config with the same initial state and the
\* same set of (source, event, target-or-internal) edges, and every edge
\* whose line carried a guard or action marker still has a guard or action.
C27_RoundTripKeepsGraphAndMarkers ==
    (diagram.origin = "text" /\ Len(diagram.decoded) >= 2) =>
        LET first == diagram.decoded[1].config
            again == diagram.decoded[2]
        IN /\ again.kind = "config"
           /\ again.config.initial = first.initial
           /\ Graph(again.config) = Graph(first)
           /\ \A x \in EdgesOf(first) :
                 /\ x.guard => \E y \in EdgesOf(again.config) : SameEdge(x, y) /\ y.guard
                 /\ x.action => \E y \in EdgesOf(again.config) : SameEdge(x, y) /\ y.action

\* the config the k-th text was encoded from, when it was encoded
Encoded(k) == diagram.origin = "config" \/ k > 1
SourceConfig(k) ==
    diagram.decoded[IF diagram.origin = "config" THEN k ELSE k - 1].config
\* the label of the k-th edge of an entry: the event, the marker of its
\* guard, the marker of its action
LabelOf(x, k) ==
    LET t == x.def.edges[k]
    IN EventText(x.event)
         \o (IF x.def.form = "array" THEN " [guard " \o ToString(k) \o "]"
             ELSE IF x.def.form = "object" /\ Truthy(t.guard) THEN " [guarded]"
             ELSE "")
         \o (IF ~Truthy(t.action) THEN ""
             ELSE IF Truthy(t.target) THEN " / (action)"
             ELSE " / (action internal)")
\* the line of each edge of a config
LinesOf(cfg) ==
    UNION {{x.source \o " --> "
              \o (IF Truthy(x.def.edges[k].target) THEN x.def.edges[k].target
                  ELSE x.source)
              \o ": " \o LabelOf(x, k) : k \in 1..Len(x.def.edges)} : x \in Entries(cfg)}

\* C28 (as stated): toMermaid writes one line `Source --> Target: Label`
\* per edge, the source standing for the target of an edge without one;
\* the label is the event (`* (any)` for the wildcard), then `[guard N]`
\* for the N-th entry of a sequence, `[guarded]` for a single edge object
\* with a guard and nothing for one without, then `/ (action)` for an
\* action with a target and `/ (action internal)` for one without.
C28_OneLinePerEdge ==
    \A k \in 1..Len(diagram.texts) :
        Encoded(k) =>
            LET text == diagram.texts[k]
                cfg  == SourceConfig(k)
            IN /\ Len(text) = 2 + Cardinality(LinesOf(cfg))
               /\ {text[i].body : i \in 3..Len(text)} = LinesOf(cfg)

\* the engine was built by FSM.fromMermaid from this text
Built == Len(diagram.decoded)
EngineFromText ==
    /\ Built > 0
    /\ FromText(Built)
    /\ diagram.decoded[Built].kind = "config"
EngineText == SourceText(Built)
\* the transition lines of a text after its header that leave s on e
LinesFor(text, s, e) ==
    {i \in 1..Len(text) :
        /\ \E h \in HeadersOf(text) : h < i
        /\ \E m \in TransitionMatch(text[i].body) :
              m.fromState = s /\ ParseLabel(m.label).event = e}
\* where the line leads
TargetOf(line) == (CHOOSE m \in TransitionMatch(line.body) : TRUE).toState

\* C29 (as stated): on an engine built by FSM.fromMermaid, for every line
\* `S --> T: e` that is the first line of the text for (S, e), transition(e)
\* in state S returns T and does not throw, also when T has no outgoing
\* line.
C29_DecodedEngineFollowsLines ==
    (EngineFromText /\ last.op = "transition") =>
        \A i \in LinesFor(EngineText, last.pre.state, last.event) :
            (\A j \in LinesFor(EngineText, last.pre.state, last.event) : i <= j) =>
                /\ last.kind = "return"
                /\ last.value = TargetOf(EngineText[i])
                /\ state = TargetOf(EngineText[i])

(***************************************************************************)
(* C36: when the current state's `on` has an entry for the literal event   *)
(* and every guard of that entry rejects, the wildcard entry is not        *)
(* consulted: the transition is refused, and canTransition returns false,  *)
(* even if the state's "*" definition would match.                         *)
(***************************************************************************)
\* the literal entry of the last call's event exists and all its guards
\* returned false
LiteralRejected ==
    /\ last.op \in {"transition", "canTransition"}
    /\ PreHasOn
    /\ last.event # Wildcard
    /\ last.event \in DOMAIN PreOn
    /\ EveryGuardRejected(PreOn[last.event])
\* the state's "*" definition, resolved on its own in the state the last
\* call started in, matches
WildcardWouldMatch ==
    /\ Wildcard \in DOMAIN PreOn
    /\ ResolveTransition([state |-> last.pre.state, previous |-> last.pre.previous,
                          context |-> last.pre.context, trace |-> <<>>],
                         PreOn[Wildcard], last.payload).found

C36_WildcardNotConsulted ==
    LiteralRejected =>
        /\ last.def = PreOn[last.event]
        /\ ~last.found
        /\ Len(SelectSeq(LastTrace, LAMBDA e : e.step = "guard"))
              = Len(PreOn[last.event].edges)
        /\ Unchanged /\ LastSteps(EffectSteps) = {}
        /\ last.op = "canTransition" => ~last.can
        /\ last.op = "transition" =>
              last.kind = (IF last.assert THEN "throw" ELSE "return")

C36_Witness ==
    /\ LiteralRejected
    /\ WildcardWouldMatch
    /\ last.op = "transition"
    /\ last.assert
    /\ last.kind = "throw"
    /\ Len(PreOn[last.event].edges) > 1

(***************************************************************************)
(* C40: reset() runs no lifecycle hook: neither onExit of the state being  *)
(* left nor onEnter of the initial state is invoked, so the context after  *)
(* reset is exactly the freshly produced one, unmodified by any hook.      *)
(***************************************************************************)
\* the user functions other than subscribers
HookSteps == {"guard", "onExit", "action", "onEnter", "call"}
\* onEnter of the initial state
InitialOnEnter == StateConfigOf(config, config.initial).onEnter

C40_ResetRunsNoHook ==
    last.op = "reset" =>
        /\ LastSteps(HookSteps) = {}
        /\ context = InitContext(config)
        /\ \A k \in LastSteps({"notify"}) : LastTrace[k].context = InitContext(config)

C40_Witness ==
    /\ last.op = "reset"
    /\ IsFunction(PreCfg.onExit)
    /\ IsFunction(InitialOnEnter)
    /\ RunCallback(InitialOnEnter, InitContext(config), Undefined) # InitContext(config)
    /\ last.pre.context # InitContext(config)
    /\ Len(last.pre.subs) > 0

(***************************************************************************)
(* C34: fromMermaid collects all transition lines with the same source     *)
(* state and event into one sequence that preserves line order; a pair     *)
(* with exactly one line and no guard/action marker decodes to the bare    *)
(* target string, and a line `S --> S: e / (action internal)` decodes to   *)
(* an edge with an action and no target.                                   *)
(***************************************************************************)
\* the transition lines of a text that are read
ReadLines(text) ==
    {i \in 1..Len(text) :
        /\ \E h \in HeadersOf(text) : h < i
        /\ TransitionMatch(text[i].body) # {}}
\* what the regular expression of a transition line yields for the line
MatchOf(line) == CHOOSE m \in TransitionMatch(line.body) : TRUE
\* the event of a transition line
EventOf(line) == ParseLabel(MatchOf(line).label).event
\* the read lines that leave the source of line i on its event, in order
GroupOf(text, i) ==
    SelectSeq([j \in 1..Len(text) |-> j],
              LAMBDA j : j \in LinesFor(text, MatchOf(text[i]).fromState,
                                        EventOf(text[i])))
\* the line carries a guard or an action marker
Marked(line) ==
    \/ ParseLabel(MatchOf(line).label).hasGuard
    \/ ParseLabel(MatchOf(line).label).hasAction
\* the line has the form `S --> S: e / (action internal)`
InternalLine(line) ==
    /\ MatchOf(line).fromState = MatchOf(line).toState
    /\ MatchOf(line).label = EventText(EventOf(line)) \o InternalMarker
\* the line leads to its own source and ends with the internal marker
SelfInternal(line) ==
    /\ MatchOf(line).fromState = MatchOf(line).toState
    /\ ParseLabel(MatchOf(line).label).isInternalAction
\* config.states[s].on[e] of a decoded config
DecodedDef(cfg, s, e) ==
    LET si == KeyIndex(cfg.states, s)
        ei == IF si = 0 THEN 0 ELSE KeyIndex(cfg.states[si].value.on, e)
    IN IF ei = 0 THEN NoDef ELSE cfg.states[si].value.on[ei].value
\* the lines of each (source, event) pair are its edges, in line order
GroupsInLineOrder(text, cfg) ==
    \A i \in ReadLines(text) :
        LET group == GroupOf(text, i)
            def   == DecodedDef(cfg, MatchOf(text[i]).fromState, EventOf(text[i]))
        IN /\ Len(def.edges) = Len(group)
           /\ \A n \in 1..Len(group) :
                 def.edges[n].target =
                     IF SelfInternal(text[group[n]]) THEN Undefined
                     ELSE TargetOf(text[group[n]])
           /\ (Len(group) = 1 /\ ~Marked(text[i])) =>
                 (def.form = "string" /\ def.edges[1].target = TargetOf(text[i]))
\* an internal line is an edge with an action and without a target
InternalLinesDecoded(text, cfg) ==
    \A i \in ReadLines(text) :
        LET group == GroupOf(text, i)
            def   == DecodedDef(cfg, MatchOf(text[i]).fromState, EventOf(text[i]))
        IN \A n \in 1..Len(group) :
              (n <= Len(def.edges) /\ InternalLine(text[group[n]])) =>
                  /\ def.edges[n].target = Undefined
                  /\ IsFunction(def.edges[n].action)

C34_LinesCollectedInOrder ==
    \A k \in 1..Len(diagram.decoded) :
        (FromText(k) /\ diagram.decoded[k].kind = "config") =>
            /\ GroupsInLineOrder(SourceText(k), diagram.decoded[k].config)
            /\ InternalLinesDecoded(SourceText(k), diagram.decoded[k].config)

(***************************************************************************)
(* C31: if the edge's action throws during an external transition, the     *)
(* exception reaches the caller of transition, the context changes already *)
(* made by the old state's onExit persist, current and previous keep their *)
(* pre-call values, onEnter of the target is not run, no subscriber is     *)
(* notified, and a later transition from the old state behaves as if the   *)
(* failed attempt had only run onExit.                                     *)
(***************************************************************************)
\* the last call was an external transition whose action throws
ActionThrew ==
    /\ last.op = "transition"
    /\ last.found
    /\ IsFunction(last.edge.target)
    /\ last.edge.action = Thrower
    /\ PreCfg.onExit \in Callbacks \cup {Undefined}
\* the context after onExit of the old state ran on the pre-call context
AfterOnExit ==
    IF IsFunction(PreCfg.onExit)
    THEN RunCallback(PreCfg.onExit, last.pre.context, last.payload)
    ELSE last.pre.context
\* the engine had only onExit of the old state been run
OnlyOnExitRan ==
    [state |-> last.pre.state, previous |-> last.pre.previous,
     context |-> AfterOnExit, trace |-> <<>>]

C31_ActionThrows ==
    ActionThrew =>
        /\ last.kind = "throw"
        /\ last.error = "UserError"
        /\ context = AfterOnExit
        /\ state = last.pre.state
        /\ previous = last.pre.previous
        /\ LastSteps({"set", "onEnter", "publish", "notify"}) = {}
        /\ Cardinality(LastSteps({"onExit"}))
              = (IF IsFunction(PreCfg.onExit) THEN 1 ELSE 0)
        /\ \A event \in Events(config, state) :
              TransitionReentrant(Machine, config, subs, event, Undefined, TRUE, 1)
                = TransitionReentrant(OnlyOnExitRan, config, last.pre.subs, event,
                                      Undefined, TRUE, 1)

C31_Witness ==
    /\ ActionThrew
    /\ last.kind = "throw"
    /\ IsFunction(PreCfg.onExit)
    /\ context # last.pre.context
    /\ IsFunction(TargetCfg.onEnter)
    /\ Len(last.pre.subs) = MaxSubs

(***************************************************************************)
(* Vocabulary of nested calls.                                             *)
(***************************************************************************)
\* the deepest transition() call of the last operation
DeepestCall ==
    IF Len(LastTrace) = 0 THEN 0
    ELSE LET levels == {LastTrace[i].level : i \in 1..Len(LastTrace)}
         IN CHOOSE l \in levels : \A k \in levels : k <= l
\* the call stack ran out during the last operation
StackExhausted ==
    \E i \in LastSteps({"end"}) : LastTrace[i].level > MaxDepth
\* no hook and no action of the config calls transition()
NoReentrantHooks(cfg) ==
    \A s \in DOMAIN cfg.states :
        /\ cfg.states[s].onEnter \notin DOMAIN Reentrant
        /\ cfg.states[s].onExit \notin DOMAIN Reentrant
        /\ \A e \in DOMAIN cfg.states[s].on :
              \A k \in 1..Len(cfg.states[s].on[e].edges) :
                  cfg.states[s].on[e].edges[k].action \notin DOMAIN Reentrant
\* the edges transition(FollowEvent) can take in state s
FollowEdges(cfg, s) ==
    LET def == LookupDef(StateConfigOf(cfg, s).on, FollowEvent)
    IN {def.edges[k] : k \in 1..Len(def.edges)}
\* the states other than s these edges lead to
Onward(cfg, s) == {e.target : e \in FollowEdges(cfg, s)} \ {s, Undefined}
\* the states reached from the states of S in at most n further steps
RECURSIVE Forward(_, _, _)
Forward(cfg, S, n) ==
    IF n = 0 THEN S
    ELSE Forward(cfg, S \cup UNION {Onward(cfg, s) : s \in S}, n - 1)
\* every edge of the subscriber's event has a target, and these edges lead
\* from no state through other states back to it
FollowEventSettles(cfg) ==
    \A s \in DOMAIN cfg.states :
        /\ \A e \in FollowEdges(cfg, s) : IsFunction(e.target)
        /\ s \notin Forward(cfg, Onward(cfg, s), Cardinality(DOMAIN cfg.states))

(***************************************************************************)
(* C35 (as stated): when the only reentrant caller is a subscriber that    *)
(* follows the documented prevention pattern (it calls transition(e) only  *)
(* when current !== previous), every top-level transition call terminates: *)
(* the chain of nested transitions through notifications is finite for     *)
(* every config.                                                           *)
(***************************************************************************)
C35_PatternTerminates ==
    (last.op = "transition" /\ NoReentrantHooks(config)) => ~StackExhausted

(***************************************************************************)
(* C35 (amended): when the only reentrant caller is such a subscriber,     *)
(* every edge of its event e has a target and the edges of e lead from no  *)
(* state through other states back to it, every top-level transition call  *)
(* terminates: the chain has at most as many nested transitions as the     *)
(* config has states.                                                      *)
(***************************************************************************)
C35_PatternTerminatesWithoutCycle ==
    (last.op = "transition" /\ NoReentrantHooks(config) /\ FollowEventSettles(config)) =>
        /\ ~StackExhausted
        /\ DeepestCall <= Cardinality(DOMAIN config.states) + 1

C35_Witness ==
    /\ last.op = "transition"
    /\ NoReentrantHooks(config)
    /\ FollowEventSettles(config)
    /\ \E i \in 1..Len(last.pre.subs) : Follows(last.pre.subs[i])
    /\ last.kind = "return"
    /\ DeepestCall = Cardinality(DOMAIN config.states) + 1
    /\ previous = state

(***************************************************************************)
(* C37: with two or more subscribers of which one calls transition from    *)
(* inside its callback, each subscriber receives the notifications in the  *)
(* order in which the state changes occurred, and when the top-level       *)
(* transition call returns, the last notification received by every        *)
(* subscriber carries current equal to the engine's current state.         *)
(***************************************************************************)
\* what a notification carries
DataOf(e) == [current |-> e.current, previous |-> e.previous]
\* the data published during the last call, in the order of the changes
Published ==
    LET es == SelectSeq(LastTrace, LAMBDA e : e.step = "publish")
    IN [i \in 1..Len(es) |-> DataOf(es[i])]
\* the data subscriber id received during the last call, in order
Received(id) ==
    LET es == SelectSeq(LastTrace, LAMBDA e : e.step = "notify" /\ e.idx = id)
    IN [i \in 1..Len(es) |-> DataOf(es[i])]
\* a subscriber called transition() from its callback during the last call
SubscriberReentered ==
    /\ last.op = "transition"
    /\ last.kind = "return"
    /\ NoReentrantHooks(config)
    /\ Len(last.pre.subs) >= 2
    /\ \E i \in 1..Len(last.pre.subs) : Follows(last.pre.subs[i])
    /\ DeepestCall >= 2

C37_NotificationsFollowState ==
    SubscriberReentered =>
        \A i \in 1..Len(last.pre.subs) :
            LET got == Received(last.pre.subs[i])
            IN /\ got = Published
               /\ Len(got) > 0
               /\ got[Len(got)].current = state

(***************************************************************************)
(* C38: when an onExit hook or an edge action itself calls transition (a   *)
(* nested transition that completes), then after the outer external        *)
(* transition returns, current is the outer edge's target, previous is the *)
(* state the engine was in when the outer call started, and the outer      *)
(* edge's onExit, action and onEnter each ran exactly once.                *)
(***************************************************************************)
\* the steps of the given kind run by the top-level call itself
OuterSteps(step) ==
    {i \in LastSteps({step}) : LastTrace[i].level = 1}
\* one run for a callback that is defined, none for one that is not
Once(callback) == IF IsFunction(callback) THEN 1 ELSE 0
\* the last call was an external transition that returned, and its onExit
\* hook or its action made a nested call that returned
HookReentered ==
    /\ last.op = "transition"
    /\ last.kind = "return"
    /\ last.found
    /\ IsFunction(last.edge.target)
    /\ \/ PreCfg.onExit \in DOMAIN Reentrant
       \/ last.edge.action \in DOMAIN Reentrant
    /\ \E i \in LastSteps({"end"}) : LastTrace[i].level = 2 /\ LastTrace[i].result

C38_NestedCallInHook ==
    HookReentered =>
        /\ state = last.edge.target
        /\ previous = last.pre.state
        /\ Cardinality(OuterSteps("onExit")) = Once(PreCfg.onExit)
        /\ Cardinality(OuterSteps("action")) = Once(last.edge.action)
        /\ Cardinality(OuterSteps("onEnter")) = Once(TargetCfg.onEnter)

(***************************************************************************)
(* Vocabulary of C39: the engine's state along the steps of the last call. *)
(***************************************************************************)
\* the targets of all edges of the config
AllTargets(cfg) ==
    UNION {UNION {{cfg.states[s].on[e].edges[k].target :
                      k \in 1..Len(cfg.states[s].on[e].edges)} :
                  e \in DOMAIN cfg.states[s].on} :
           s \in DOMAIN cfg.states} \ {Undefined}
\* the targets of the edges transition(event) chooses from in state s
EdgeTargets(cfg, s, event) ==
    LET def == LookupDef(StateConfigOf(cfg, s).on, event)
    IN {def.edges[k].target : k \in 1..Len(def.edges)} \ {Undefined}
\* current and previous before the first step of the last call: reset()
\* assigns them before anything else happens
Before ==
    IF last.op = "reset"
    THEN [current |-> config.initial, previous |-> Null]
    ELSE [current |-> last.pre.state, previous |-> last.pre.previous]
\* the steps of the last call that record the engine's own fields (a
\* notification records the data it carries)
Live == SelectSeq(LastTrace, LAMBDA e : e.step # "notify")
\* current and previous before the i-th of these steps
Prior(i) == IF i = 1 THEN Before ELSE DataOf(Live[i - 1])
\* the end of the transition call that made the i-th of these steps
EndOf(i) ==
    LET later == {j \in (i + 1)..Len(Live) :
                     Live[j].step = "end" /\ Live[j].level = Live[i].level}
    IN Live[CHOOSE j \in later : \A k \in later : j <= k]
\* the i-th step is the state update of an external transition: current
\* becomes a target of the edges of the call's event in the state the call
\* resolved its edge in, previous the state read at that moment
IsUpdate(i) ==
    /\ Live[i].step = "set"
    /\ Live[i].current \in EdgeTargets(config, Live[i].owner, EndOf(i).owner)
    /\ (last.op = "transition" /\ Live[i].level = 1) =>
          Live[i].current = last.edge.target
    /\ Live[i].previous = Prior(i).current
\* current is the initial state or the target of an edge, and along the
\* last call current and previous changed at state updates only
ChangedAtUpdatesOnly ==
    /\ state \in {config.initial} \cup AllTargets(config)
    /\ \A i \in 1..Len(Live) : DataOf(Live[i]) = Prior(i) \/ IsUpdate(i)
    /\ state = Prior(Len(Live) + 1).current
    /\ previous = Prior(Len(Live) + 1).previous
\* every state update of the last call belongs to a call that returned
UpdatesCompleted ==
    \A i \in 1..Len(Live) : Live[i].step = "set" => EndOf(i).result

(***************************************************************************)
(* C39 (as stated): in every reachable state, current is config.initial or *)
(* the target of some edge of the config; current changes only by a        *)
(* completed external transition (to the resolved edge's target) or by     *)
(* reset (to initial), and previous changes only by those same two         *)
(* operations.                                                             *)
(***************************************************************************)
C39_ChangedByCompletedTransition ==
    ChangedAtUpdatesOnly /\ UpdatesCompleted

(***************************************************************************)
(* C39 (amended): in every reachable state, current is config.initial or   *)
(* the target of some edge of the config; current changes only at the      *)
(* state update of an external transition (to the resolved edge's target), *)
(* whether or not that call then returns, or by reset (to initial), and    *)
(* previous changes only at those same two places.                         *)
(***************************************************************************)
C39_ChangedAtStateUpdate ==
    ChangedAtUpdatesOnly

\* an external transition updated the state and then threw
C39_Witness ==
    /\ last.op = "transition"
    /\ last.kind = "throw"
    /\ state # last.pre.state
    /\ state = last.edge.target
    /\ previous = last.pre.state
    /\ \E i \in 1..Len(Live) : Live[i].step = "set" /\ ~EndOf(i).result

(***************************************************************************)
(* Vocabulary of C32: two instances of one config object.                  *)
(***************************************************************************)
\* the context of the instance the last call was made on, and of the other
ActorContext == IF twin.actor = 1 THEN context ELSE twin.context
IdleContext == IF twin.actor = 1 THEN twin.context ELSE context
\* the same two contexts as the last call found them
ActorBefore == twin.before[twin.actor]
IdleBefore == twin.before[3 - twin.actor]
\* the top-level fields of a context
TopLevel(ctx) == [k \in DOMAIN ctx \ {"nested"} |-> ctx[k]]

(***************************************************************************)
(* C32 (as stated): context is exclusive to one engine: for two engines    *)
(* constructed from the same config object, no context mutation performed  *)
(* by an action or hook of one engine is ever observable in the other      *)
(* engine's context, for a static context value (including its nested      *)
(* data) and for a factory alike.                                          *)
(***************************************************************************)
C32_ContextExclusive ==
    twin.actor # 0 => IdleContext = IdleBefore

(***************************************************************************)
(* C32 (amended): for two engines constructed from the same config object, *)
(* no mutation of a top-level field of the context performed by an action  *)
(* or hook of one engine is ever observable in the other engine's context, *)
(* for a static context value and for a factory alike, and with a factory  *)
(* no mutation at all is; the nested data of a static context value is     *)
(* shared by the two engines, so a write made to it in place by one engine *)
(* is observable in the other.                                             *)
(***************************************************************************)
C32_TopLevelExclusive ==
    twin.actor # 0 =>
        /\ TopLevel(IdleContext) = TopLevel(IdleBefore)
        /\ config.factory => IdleContext = IdleBefore
        /\ ~config.factory => IdleContext.nested = ActorContext.nested

\* an engine of a static context value wrote to the nested data, after one
\* of the two wrote a top-level field the other does not see
C32_Witness ==
    /\ twin.actor # 0
    /\ last.op = "transition"
    /\ ~config.factory
    /\ ActorContext.nested # ActorBefore.nested
    /\ IdleContext.nested # IdleBefore.nested
    /\ TopLevel(IdleContext) # TopLevel(ActorContext)

(***************************************************************************)
(* C33: composeFsmConfig is pure: for every combination of policies it     *)
(* never modifies any fragment passed to it (neither a fragment's states,  *)
(* `on` mappings, edge sequences nor its context value), and composing the *)
(* same fragment list twice yields configs with the same initial state and *)
(* the same per-state, per-event edge sequences.                           *)
(***************************************************************************)
\* composeFsmConfig has just returned or thrown: no call of the engine has
\* been made yet
JustComposed == Composed /\ last.op \in {"new", "none"}
\* the fragments as the call left them
Left == FragmentsAfter(compose.fragments, compose.options)
\* the same list composed once more
Again == ComposeFsmConfig(Left, compose.options)
\* the edge sequences of a composed config, per state and event
EdgeSequences(states) ==
    [n \in DOMAIN states |->
        [e \in DOMAIN states[n].on |-> NormalizeToArray(states[n].on[e])]]

====
